---- MODULE Spec2Model ----
(***************************************************************************)
(* Model of the histogram binning engine of mpes (src/mpes/fprocessing.py): *)
(* hdf5Processor.localBinning / distributedBinning, binDataframe,          *)
(* hdf5Splitter.split and parallelHDF5Processor.parallelBinning.           *)
(*                                                                         *)
(* Numbers.  Stream values are small integers (exactly representable as    *)
(* float32); every derived quantity (bin edges, midpoints, jittered        *)
(* values, chunk sizes) is an exact rational <<num, den>> with den > 0 in  *)
(* lowest terms.  Within the bounds of this model the float expressions    *)
(* of the code that are truncated to integers (int(p*chunkSize),           *)
(* nEvents // chunkSize, np.linspace(..., dtype='int')) give the same      *)
(* integers as the exact arithmetic used here.                             *)
(***************************************************************************)
EXTENDS Integers, Sequences, FiniteSets, TLC

(***************************************************************************)
(* Bounds of the model.                                                    *)
(***************************************************************************)
MaxEvents == 3      \* longest source (number of events per stream)
MaxJitEvents == 1   \* longest source binned with jitter
MaxBins == 2        \* largest bin count per axis
NCpu == 2           \* N_CPU, the CPU count of the host (ps.cpu_count())
ChunkSize == 2      \* CHUNK_SIZE (1e6 in the code), scaled to the sources' size
MaxSplit == 2       \* largest nsplit
MaxFiles == 2       \* most files given to a parallel processor
MaxCalls == 2       \* most binning calls made on one processor

Streams == {"X", "Y"}          \* aliases of the groups of the file
StreamOrder == <<"X", "Y">>    \* list(self): the order of the groups

\* The events a source is made of.  Against the ranges of RangePool the values
\* cover: below min, inside, equal to max, above max.
EventPool == { [X |-> 0, Y |-> 3], [X |-> 1, Y |-> 1], [X |-> 2, Y |-> 0] }

RECURSIVE SeqsUpTo(_, _)
SeqsUpTo(S, n) ==
    IF n = 0 THEN { << >> }
    ELSE LET shorter == SeqsUpTo(S, n - 1)
         IN  shorter \cup { Append(s, x) : s \in { t \in shorter : Len(t) = n - 1 }, x \in S }

(***************************************************************************)
(* Exact rationals.                                                        *)
(***************************************************************************)
Abs(x) == IF x < 0 THEN -x ELSE x

RECURSIVE Gcd(_, _)
Gcd(a, b) == IF b = 0 THEN a ELSE Gcd(b, a % b)

Rat(n, d) ==
    LET g == Gcd(Abs(n), Abs(d))
        s == IF d < 0 THEN -1 ELSE 1
    IN  << (s * n) \div g, (s * d) \div g >>

FromInt(v) == << v, 1 >>
RatLeq(a, b) == a[1] * b[2] <= b[1] * a[2]
RatAdd(a, b) == Rat(a[1] * b[2] + b[1] * a[2], a[2] * b[2])
RatSub(a, b) == Rat(a[1] * b[2] - b[1] * a[2], a[2] * b[2])
RatScale(a, n, d) == Rat(a[1] * n, a[2] * d)      \* a * n / d
RatAbs(a) == << Abs(a[1]), a[2] >>
Trunc(a) == IF a[1] >= 0 THEN a[1] \div a[2] ELSE -((-a[1]) \div a[2])   \* int(a)
Floor(a) == a[1] \div a[2]

\* ndarray.astype('float32') of an integer: exact up to 2^24, then to the even grid.
Float32(v) == IF Abs(v) <= 16777216 THEN v ELSE 2 * ((v + 1) \div 2)

(***************************************************************************)
(* numpy                                                                   *)
(***************************************************************************)
\* np.linspace(start, stop, num): num evenly spaced samples, both ends included.
Linspace(start, stop, num) ==
    [ j \in 1..num |->
        IF num = 1 THEN start
        ELSE RatAdd(start, RatScale(RatSub(stop, start), j - 1, num - 1)) ]

\* An n-dimensional array is [shape, data]: data maps every index tuple
\* (0-based, one entry per dimension) to its element.
SeqMax(s) == IF Len(s) = 0 THEN 0 ELSE CHOOSE m \in { s[i] : i \in 1..Len(s) } : \A i \in 1..Len(s) : s[i] <= m
IndexSet(shape) ==
    { ix \in [1..Len(shape) -> 0..(SeqMax(shape) - 1)] : \A i \in 1..Len(shape) : ix[i] < shape[i] }
NdArray(shape, f(_)) == [ shape |-> shape, data |-> [ ix \in IndexSet(shape) |-> f(ix) ] ]

ZerosLike(a) == [ shape |-> a.shape, data |-> [ ix \in DOMAIN a.data |-> 0 ] ]
\* a + b for arrays of one shape
ArrayAdd(a, b) == [ shape |-> a.shape, data |-> [ ix \in DOMAIN a.data |-> a.data[ix] + b.data[ix] ] ]

RECURSIVE SumOver(_, _)
SumOver(S, f) ==
    IF S = {} THEN 0
    ELSE LET x == CHOOSE y \in S : TRUE IN f[x] + SumOver(S \ {x}, f)
\* ndarray.sum()
ArraySum(a) == SumOver(DOMAIN a.data, a.data)

\* bins of np.histogramdd: an integer (one count for all dimensions) or a list.
IntBins(n) == [ kind |-> "int", val |-> n ]
ListBins(l) == [ kind |-> "list", val |-> l ]
BinsAt(bins, i) == IF bins.kind = "int" THEN bins.val ELSE bins.val[i]

\* _get_outer_edges: a range with min = max is widened by 0.5 on both sides.
OuterEdges(r) ==
    IF r[1] = r[2] THEN << Rat(2 * r[1] - 1, 2), Rat(2 * r[2] + 1, 2) >>
    ELSE << FromInt(r[1]), FromInt(r[2]) >>

\* The bin edges of one dimension: np.linspace(smin, smax, bins + 1).
HistEdges(r, nb) == Linspace(OuterEdges(r)[1], OuterEdges(r)[2], nb + 1)

\* A variant of the bin search without the correction for the last edge: a
\* value equal to the upper end of the range falls in the overflow bin.
NcountHalfOpen(edges, v) == Cardinality({ j \in 1..Len(edges) : RatLeq(edges[j], v) })

\* A variant of the bin search that clips values outside the range into the
\* first and the last bin.
NcountClipped(edges, v) ==
    LET n == Cardinality({ j \in 1..Len(edges) : RatLeq(edges[j], v) })
    IN  IF n < 1 THEN 1 ELSE IF n > Len(edges) - 1 THEN Len(edges) - 1 ELSE n

\* np.searchsorted(edges, v, side='right'), less one when v is the last edge:
\* 0 is the underflow bin, Len(edges) the overflow bin.
Ncount(edges, v) ==
    LET n == Cardinality({ j \in 1..Len(edges) : RatLeq(edges[j], v) })
    IN  IF v = edges[Len(edges)] THEN n - 1 ELSE n

\* The exception np.histogramdd raises for a sample of D columns, or "none".
HistogramddError(D, bins, range) ==
    IF bins.kind = "list" /\ Len(bins.val) # D THEN "ValueError"
    ELSE IF Len(range) # D THEN "ValueError"
    ELSE IF \E i \in 1..D : BinsAt(bins, i) < 1 THEN "ValueError"
    ELSE IF \E i \in 1..D : range[i][1] > range[i][2] THEN "ValueError"
    ELSE "none"

\* np.histogramdd(sample, bins, range) when it raises nothing: the counts
\* (outliers dropped) and the edges per dimension.  sample is a sequence of
\* rows of D rationals.
Histogramdd(sample, D, bins, range) ==
    LET edges == [ i \in 1..D |-> HistEdges(range[i], BinsAt(bins, i)) ]
        shape == [ i \in 1..D |-> BinsAt(bins, i) ]
        where == [ e \in 1..Len(sample) |-> [ i \in 1..D |-> Ncount(edges[i], sample[e][i]) ] ]
        count(ix) == Cardinality({ e \in 1..Len(sample) : \A i \in 1..D : where[e][i] = ix[i] + 1 })
    IN  [ hist |-> NdArray(shape, count), edges |-> edges ]

\* (ax_edge[1:] + ax_edge[:-1]) / 2
Midpoints(edges) ==
    [ j \in 1..(Len(edges) - 1) |-> RatScale(RatAdd(edges[j + 1], edges[j]), 1, 2) ]

(***************************************************************************)
(* Bin specifications offered to the binning operations: the valid ones,   *)
(* the ones with a single bin count for all axes, and the ones with one    *)
(* defect (a list too short, a bin count of 0, a range with min = max or   *)
(* min > max).                                                             *)
(***************************************************************************)
AxesPool == { << "X" >>, << "X", "Y" >> }
ValidRanges == { << 0, 2 >>, << 1, 3 >> }
DegenerateRange == << 1, 1 >>
InvertedRange == << 3, 1 >>

BinSpec(axes, nbins, ranges) == [ axes |-> axes, nbins |-> nbins, ranges |-> ranges ]
DropLast(s) == SubSeq(s, 1, Len(s) - 1)

ValidSpecsOn(ax) ==
    { BinSpec(ax, ListBins(nb), rg) :
        nb \in [1..Len(ax) -> 1..MaxBins], rg \in [1..Len(ax) -> ValidRanges] }
ValidSpecs == UNION { ValidSpecsOn(ax) : ax \in AxesPool }

\* One bin count for all axes (0 is a non-positive count).
ScalarSpecs == { [ s EXCEPT !.nbins = IntBins(n) ] : s \in ValidSpecs, n \in 0..MaxBins }

DefectsOf(s) ==
    LET k == Len(s.axes)
    IN  { [ s EXCEPT !.nbins = ListBins(DropLast(s.nbins.val)) ],
          [ s EXCEPT !.ranges = DropLast(s.ranges) ],
          [ s EXCEPT !.nbins = ListBins([ s.nbins.val EXCEPT ![k] = 0 ]) ],
          [ s EXCEPT !.ranges[k] = DegenerateRange ],
          [ s EXCEPT !.ranges[k] = InvertedRange ] }
DefectSpecs == UNION { DefectsOf(s) : s \in ValidSpecs }

BinSpecs == ValidSpecs \cup ScalarSpecs \cup DefectSpecs

\* What validate(axes, nbins, ranges) of the specification accepts: one bin
\* count and one range per axis (a single integer counts for every axis),
\* every count positive, every range with min < max.
LengthsAgree(s) ==
    /\ s.nbins.kind = "list" => Len(s.nbins.val) = Len(s.axes)
    /\ Len(s.ranges) = Len(s.axes)
IsValidSpec(s) ==
    /\ LengthsAgree(s)
    /\ \A i \in 1..Len(s.axes) : BinsAt(s.nbins, i) >= 1
    /\ \A i \in 1..Len(s.ranges) : s.ranges[i][1] < s.ranges[i][2]

(***************************************************************************)
(* hdf5Reader / hdf5Processor                                              *)
(***************************************************************************)
VARIABLES
    source,     \* the groups of the open file: a sequence of events, one value per stream
    attrs,      \* the attributes of the open file and of each of its groups
    ncores,     \* self.ncores
    binners,    \* self.binaxes, nbinaxes, bincounts, binranges (absent until set)
    hdfdict,    \* self.hdfdict: the streams loaded for binning
    edf,        \* self.edf: the rows of the event dataframe
    histdict,   \* self.histdict: 'binned' and one coordinate array per axis
    calls,      \* the number of binning calls made on the processor so far
    held,       \* the object the last successful binning call returned to the script, and its axes
    call,       \* the operation called last and its arguments
    err,        \* the exception that call raised, "none" when it returned
    phase,      \* where the calling script stands
    reads,      \* the number of stream reads made so far
    tasks,      \* the number of binning tasks created so far
    eventList,      \* hdf5Splitter.eventList: the split boundaries
    splitTasks,     \* the idx of the _split_file tasks d.compute has yet to run
    fsys,           \* the split files on disk: k -> the events stored in 'split_k.h5'
    saved,          \* the file saveHistogram wrote: absent, or its datasets by name
    fattrs,         \* the attributes of the split files: k -> those of 'split_k.h5' and of its groups
    splitFilepaths, \* hdf5Splitter.splitFilepaths
    files,          \* parallelHDF5Processor.files
    pbinners,       \* parallelHDF5Processor.binaxes, nbinaxes, bincounts, binranges
    computed,       \* the outcome of each binning task d.compute has run, by task position
    order,          \* the task positions in the order the tasks completed
    results,        \* parallelHDF5Processor.results
    combinedresult, \* parallelHDF5Processor.combinedresult
    batchStart,         \* binDataframe: i of the outer loop
    coreTasks,          \* binDataframe: the partition indices of the tasks of the current batch
    coreResults,        \* binDataframe: the results of the tasks d.compute has finished, by task position
    partitionResults,   \* binDataframe: the summed result of every batch computed so far
    fullResult,         \* binDataframe: the sum of partitionResults, once computed
    loopSteps,          \* binDataframe: the number of steps its loops have taken
    batches,            \* the batches computed so far: their tasks and how many had finished when they were summed
    readout             \* the dictionary readBinnedhdf5 returned, once called

procVars == << source, attrs, ncores, binners, hdfdict, edf, histdict, calls, held >>
splitVars == << eventList, splitTasks, fsys, fattrs, splitFilepaths, saved >>
parVars == << files, pbinners, computed, order, results, combinedresult >>
batchVars == << batchStart, coreTasks, coreResults, partitionResults, fullResult, loopSteps, batches >>
vars == << procVars, call, err, phase, reads, tasks, splitVars, parVars, batchVars, readout >>

NoAttrs == [ a \in {} |-> 0 ]     \* an empty dict / no attribute set
\* File and group attributes: the file's own, and those of the groups that have any.
NoFileAttrs == [ file |-> NoAttrs, groups |-> NoAttrs ]
GroupAttrs(at, g) == IF g \in DOMAIN at.groups THEN at.groups[g] ELSE NoAttrs

NoCall == [ op |-> "none" ]

\* An optional argument: None, or a value.
None == [ given |-> FALSE ]
Some(v) == [ given |-> TRUE, val |-> v ]

\* hdf5Reader.__init__: the worker count kept for an ncores argument.
InitNcores(arg) ==
    IF ~arg.given THEN NCpu
    ELSE IF arg.val > NCpu \/ arg.val < 0 THEN NCpu
    ELSE arg.val

\* hdf5Processor._addBinners(axes, nbins, ranges) with binDict = None.
AddBinners(axes, nbins, ranges) ==
    [ binaxes |-> axes, nbinaxes |-> Len(axes), bincounts |-> nbins, binranges |-> ranges ]

\* self.groupAliases: the aliases of the groups of a file (every event of a
\* file holds one value per group).
GroupsOf(src) == IF Len(src) = 0 THEN Streams ELSE DOMAIN src[1]

\* summarize(form='dict') -> _assembleGroups(..., dtyp='float32', ret='dict'):
\* every group of the file, whole, keyed by its alias.
AssembleGroupsDict(src) ==
    [ s \in GroupsOf(src) |-> [ e \in 1..Len(src) |-> FromInt(Float32(src[e][s])) ] ]

Min2(a, b) == IF a <= b THEN a ELSE b

\* The jitter loop of localBinning over zip(jitter_bins, jitter_axes,
\* jitter_amplitude, jitter_ranges), from position z on.  noise[z][e] is the
\* draw of np.random.uniform(-1, 1) for event e at position z.
RECURSIVE JitterFrom(_, _, _, _, _, _, _)
JitterFrom(hdf, z, jbins, jaxes, jamps, jranges, noise) ==
    LET zlen == Min2(Min2(Len(jbins), Len(jaxes)), Min2(Len(jamps), Len(jranges)))
    IN  IF z > zlen THEN [ err |-> "none", hdf |-> hdf ]
        ELSE IF jaxes[z] \notin DOMAIN hdf THEN [ err |-> "KeyError", hdf |-> hdf ]
        ELSE IF jbins[z] = 0 THEN [ err |-> "ZeroDivisionError", hdf |-> hdf ]
        ELSE LET jr == jranges[z]
                 \* jamp * binsize, binsize = abs(jr[0] - jr[1]) / jb
                 width == RatScale(jamps[z], Abs(jr[1] - jr[2]), jbins[z])
                 moved == [ e \in DOMAIN hdf[jaxes[z]] |->
                              RatAdd(hdf[jaxes[z]][e], RatScale(width, noise[z][e], 1)) ]
             IN  JitterFrom([ hdf EXCEPT ![jaxes[z]] = moved ], z + 1,
                            jbins, jaxes, jamps, jranges, noise)

\* The jitter block: jitter_axes is the keyword of the call or, by default,
\* its axes; jitter_bins and jitter_ranges take nbins and ranges of the call;
\* a single integer nbins cannot be zipped.
Jitter(hdf, c, noise) ==
    IF c.nbins.kind = "int" THEN [ err |-> "TypeError", hdf |-> hdf ]
    ELSE JitterFrom(hdf, 1, c.nbins.val,
                    IF "jitter_axes" \in DOMAIN c THEN c.jitter_axes ELSE c.axes,
                    c.jitter_amplitude, c.ranges, noise)

\* np.stack((hdfdict[ax] for ax in axes), axis=1)
StackAxes(hdf, axes) ==
    [ e \in 1..Len(hdf[axes[1]]) |-> [ i \in 1..Len(axes) |-> hdf[axes[i]][e] ] ]

\* The coordinate entries localBinning stores for its axes.
LocalCoords(axes, edges, histcoord) ==
    [ ax \in { axes[i] : i \in 1..Len(axes) } |->
        LET iax == CHOOSE i \in 1..Len(axes) : axes[i] = ax /\ \A j \in (i + 1)..Len(axes) : axes[j] # ax
        IN  IF histcoord = "midpoint" THEN Midpoints(edges[iax]) ELSE edges[iax] ]

\* dict update: the entries of new replace or extend those of old.
DictMerge(old, new) ==
    [ k \in DOMAIN old \cup DOMAIN new |-> IF k \in DOMAIN new THEN new[k] ELSE old[k] ]

\* hdf5Processor.localBinning(axes, nbins, ranges, jittered, histcoord, ret='dict'):
\* the exception raised and the attributes left behind.
LocalBinningOutcome(src, hist0, c, noise) ==
    LET loaded == AssembleGroupsDict(src)
        bn == AddBinners(c.axes, c.nbins, c.ranges)
        jit == IF c.jittered THEN Jitter(loaded, c, noise) ELSE [ err |-> "none", hdf |-> loaded ]
        D == Len(c.axes)
        herr == HistogramddError(D, bn.bincounts, bn.binranges)
        h == Histogramdd(StackAxes(jit.hdf, c.axes), D, bn.bincounts, bn.binranges)
    IN  IF jit.err # "none"
        THEN [ err |-> jit.err, binners |-> bn, hdfdict |-> jit.hdf, histdict |-> hist0 ]
        ELSE IF \E i \in 1..D : c.axes[i] \notin DOMAIN jit.hdf
        THEN [ err |-> "KeyError", binners |-> bn, hdfdict |-> jit.hdf, histdict |-> hist0 ]
        ELSE IF herr # "none"
        THEN [ err |-> herr, binners |-> bn, hdfdict |-> NoAttrs, histdict |-> hist0 ]
        ELSE [ err |-> "none", binners |-> bn, hdfdict |-> NoAttrs,
               histdict |-> DictMerge(DictMerge(hist0, [ binned |-> h.hist ]),
                                      LocalCoords(c.axes, h.edges, c.histcoord)) ]

\* ret='dict' (localBinning) and ret=True (distributedBinning) end in
\* `return self.histdict`: the script receives the processor's dictionary object
\* itself, not a copy, for the axes it asked for; a call that raises returns
\* nothing, and the script keeps what it held.
NothingHeld == [ obj |-> "none", axes |-> << >> ]
\* A variant in which a call that raises hands over the dictionary all the same.
ReturnedObjectAlways(e, axes, held0) == [ obj |-> "histdict", axes |-> axes ]
ReturnedObject(e, axes, held0) == IF e = "none" THEN [ obj |-> "histdict", axes |-> axes ] ELSE held0

LocalCall(s, jittered, amps, histcoord) ==
    [ op |-> "localBinning", axes |-> s.axes, nbins |-> s.nbins, ranges |-> s.ranges,
      jittered |-> jittered, jitter_amplitude |-> amps, histcoord |-> histcoord ]

HistCoords == { "midpoint", "edge" }
NoNoise == << >>

\* processor.localBinning(axes, nbins, ranges, histcoord=...) without jitter,
\* for the specifications and coordinate modes offered.
LocalBinningWith(specs, histcoords) ==
    /\ phase = "ready"
    /\ \E s \in specs, hc \in histcoords :
         LET c == LocalCall(s, FALSE, << >>, hc)
             out == LocalBinningOutcome(source, histdict, c, NoNoise)
         IN  /\ call' = c
             /\ err' = out.err
             /\ binners' = out.binners
             /\ hdfdict' = out.hdfdict
             /\ histdict' = out.histdict
             /\ held' = ReturnedObject(out.err, s.axes, held)
    /\ calls' = calls + 1
    /\ reads' = reads + Cardinality(GroupsOf(source))
    /\ phase' = "done"
    /\ UNCHANGED << batchVars, readout, source, attrs, ncores, edf, tasks, splitVars, parVars >>

LocalBinning == LocalBinningWith(BinSpecs, HistCoords)

\* Jitter amplitudes offered: 0 and the default 0.5 (of one bin width), and
\* the draws of the uniform noise: the two ends of [-1, 1].
AmpPool == { FromInt(0), Rat(1, 2) }
NoisePool == { -1, 1 }

\* The specifications offered with jitter: the valid ones, a single bin count,
\* and a bin count of 0 on the last axis.
JitSpecs ==
    ValidSpecs \cup ScalarSpecs
        \cup { [ s EXCEPT !.nbins = ListBins([ s.nbins.val EXCEPT ![Len(s.axes)] = 0 ]) ] : s \in ValidSpecs }

\* processor.localBinning(axes, nbins, ranges, jittered=True, jitter_amplitude=amps)
LocalBinningJittered ==
    /\ phase = "ready"
    /\ \E s \in JitSpecs, hc \in HistCoords :
       \E amps \in [1..Len(s.axes) -> AmpPool] :
       \E noise \in [1..Len(s.axes) -> [1..Len(source) -> NoisePool]] :
         LET c == LocalCall(s, TRUE, amps, hc)
             out == LocalBinningOutcome(source, histdict, c, noise)
         IN  /\ call' = c
             /\ err' = out.err
             /\ binners' = out.binners
             /\ hdfdict' = out.hdfdict
             /\ histdict' = out.histdict
             /\ held' = ReturnedObject(out.err, s.axes, held)
    /\ calls' = calls + 1
    /\ reads' = reads + Cardinality(Streams)
    /\ phase' = "done"
    /\ UNCHANGED << batchVars, readout, source, attrs, ncores, edf, tasks, splitVars, parVars >>

(***************************************************************************)
(* The chunked path: summarize(form='dataframe') and binDataframe.         *)
(***************************************************************************)
\* chunkSize = min(self.CHUNK_SIZE, self.nEvents / self.ncores), for ncores > 0
SummarizeChunkSize(N, c) ==
    IF ChunkSize * c <= N THEN FromInt(ChunkSize) ELSE Rat(N, c)

\* nPartitions = int(self.nEvents // chunkSize) + 1, for chunkSize > 0
SummarizeNPartitions(N, cs) == Floor(RatScale(FromInt(N), cs[2], cs[1])) + 1

\* eventIDStart = int(p * chunkSize)
EventIDStart(p, cs) == Trunc(RatScale(cs, p, 1))
\* eventIDEnd = int(min(eventIDStart + chunkSize, self.nEvents))
EventIDEnd(p, cs, N) ==
    LET upto == RatAdd(FromInt(EventIDStart(p, cs)), cs)
    IN  IF RatLeq(upto, FromInt(N)) THEN Trunc(upto) ELSE N

\* _assembleGroups(gNames, amin, amax): the rows amin <= e < amax, as float32
AssembleGroupsRows(src, amin, amax) ==
    [ r \in 1..(IF amax > amin THEN amax - amin ELSE 0) |->
        [ s \in Streams |-> FromInt(Float32(src[amin + r][s])) ] ]

RECURSIVE ConcatParts(_, _, _, _)
ConcatParts(src, cs, p, nparts) ==
    IF p >= nparts THEN << >>
    ELSE AssembleGroupsRows(src, EventIDStart(p, cs), EventIDEnd(p, cs, Len(src)))
            \o ConcatParts(src, cs, p + 1, nparts)

\* hdf5Reader.summarize(form='dataframe'): the rows of self.edf, the number of
\* chunk reads, or the exception of the chunk arithmetic.
SummarizeDataframe(src, c) ==
    LET N == Len(src)
        cs == SummarizeChunkSize(N, c)
        nparts == SummarizeNPartitions(N, cs)
    IN  IF c = 0 THEN [ err |-> "ZeroDivisionError", rows |-> << >>, nparts |-> 0 ]
        ELSE IF cs[1] = 0 THEN [ err |-> "ZeroDivisionError", rows |-> << >>, nparts |-> 0 ]
        ELSE [ err |-> "none", rows |-> ConcatParts(src, cs, 0, nparts), nparts |-> nparts ]

\* df.npartitions of the dataframe built with chunks=CHUNK_SIZE
NPartitions(rows) ==
    IF Len(rows) = 0 THEN 1 ELSE (Len(rows) + ChunkSize - 1) \div ChunkSize
\* df.get_partition(ij)
GetPartition(rows, ij) ==
    SubSeq(rows, ij * ChunkSize + 1, Min2((ij + 1) * ChunkSize, Len(rows)))

\* The exception binPartition raises for a specification, or "none".
BinPartitionError(binaxes, nbins, binranges) ==
    IF \E i \in 1..Len(binaxes) : binaxes[i] \notin Streams THEN "KeyError"
    ELSE HistogramddError(Len(binaxes), nbins, binranges)

\* binPartition(partition, binaxes, nbins, binranges) when it raises nothing
BinPartition(partition, binaxes, nbins, binranges) ==
    LET vals == [ e \in 1..Len(partition) |-> [ i \in 1..Len(binaxes) |-> partition[e][binaxes[i]] ] ]
    IN  Histogramdd(vals, Len(binaxes), nbins, binranges).hist

\* acc += r for every r of rs, from position k on
RECURSIVE AddAll(_, _, _)
AddAll(acc, rs, k) == IF k > Len(rs) THEN acc ELSE AddAll(ArrayAdd(acc, rs[k]), rs, k + 1)

\* One pass of the outer loop of binDataframe: the tasks of partitions
\* i .. i + ncores - 1 computed together, their results summed.
BatchIndices(i, nc, nparts) == { ij \in i..(i + nc - 1) : ij < nparts }
BatchResult(rows, i, nc, axes, nbins, ranges) ==
    LET nparts == NPartitions(rows)
        n == Cardinality(BatchIndices(i, nc, nparts))
        results0 == [ j \in 1..n |-> BinPartition(GetPartition(rows, i + j - 1), axes, nbins, ranges) ]
    IN  AddAll(ZerosLike(results0[1]), results0, 1)

\* partitionResults, for the batches that start at i, i + ncores, ...
RECURSIVE PartitionResults(_, _, _, _, _, _)
PartitionResults(rows, i, nc, axes, nbins, ranges) ==
    IF i >= NPartitions(rows) THEN << >>
    ELSE << BatchResult(rows, i, nc, axes, nbins, ranges) >>
            \o PartitionResults(rows, i + nc, nc, axes, nbins, ranges)

\* The coordinate entries of binDataframe: np.linspace(min, max, nbins[iax]).
DataframeCoords(axes, nbins, ranges) ==
    [ ax \in { axes[i] : i \in 1..Len(axes) } |->
        LET iax == CHOOSE i \in 1..Len(axes) : axes[i] = ax /\ \A j \in (i + 1)..Len(axes) : axes[j] # ax
        IN  Linspace(FromInt(ranges[iax][1]), FromInt(ranges[iax][2]), nbins.val[iax]) ]

\* binDataframe(df, ncores, axes, nbins, ranges): the exception raised, the
\* dictionary returned and the number of binning tasks created.
BinDataframe(rows, nc, axes, nbins, ranges) ==
    LET nparts == NPartitions(rows)
        perr == BinPartitionError(axes, nbins, ranges)
        prs == PartitionResults(rows, 0, nc, axes, nbins, ranges)
        summed == AddAll(ZerosLike(prs[1]), prs, 1)
    IN  IF perr # "none"
        THEN [ err |-> perr, histdict |-> NoAttrs, tasks |-> Cardinality(BatchIndices(0, nc, nparts)) ]
        ELSE IF nbins.kind = "int"
        THEN [ err |-> "TypeError", histdict |-> NoAttrs, tasks |-> nparts ]
        ELSE [ err |-> "none", tasks |-> nparts,
               histdict |-> DictMerge([ binned |-> summed ], DataframeCoords(axes, nbins, ranges)) ]

DistributedCall(s) ==
    [ op |-> "distributedBinning", axes |-> s.axes, nbins |-> s.nbins, ranges |-> s.ranges,
      jittered |-> FALSE, jitter_amplitude |-> << >>, histcoord |-> "none" ]

\* hdf5Processor.distributedBinning(axes, nbins, ranges), for the
\* specifications offered
DistributedBinningWith(specs) ==
    /\ phase = "ready"
    /\ \E s \in specs :
         LET sm == SummarizeDataframe(source, ncores)
             out == BinDataframe(sm.rows, ncores, s.axes, s.nbins, s.ranges)
         IN  /\ call' = DistributedCall(s)
             /\ binners' = AddBinners(s.axes, s.nbins, s.ranges)
             /\ IF sm.err # "none"
                THEN /\ err' = sm.err
                     /\ UNCHANGED << edf, reads, tasks, histdict >>
                     /\ held' = ReturnedObject(sm.err, s.axes, held)
                ELSE /\ edf' = sm.rows
                     /\ held' = ReturnedObject(out.err, s.axes, held)
                     /\ reads' = reads + sm.nparts * Cardinality(Streams)
                     /\ tasks' = tasks + out.tasks
                     /\ err' = out.err
                     /\ histdict' = IF out.err = "none" THEN out.histdict ELSE histdict
    /\ calls' = calls + 1
    /\ phase' = "done"
    /\ UNCHANGED << batchVars, readout, source, attrs, ncores, hdfdict, splitVars, parVars >>

DistributedBinning == DistributedBinningWith(BinSpecs)

\* hdf5Processor.distributedProcessBinning(axes, nbins, ranges): the datasets
\* of the axes are looked up by alias, stacked as dask arrays and binned by one
\* delayed np.histogramdd; the histogram and the edges are written into the
\* existing self.histdict.
DistributedProcessOutcome(src, hist0, s) ==
    LET bn == AddBinners(s.axes, s.nbins, s.ranges)
        D == Len(s.axes)
        dsets == [ g \in GroupsOf(src) |-> [ e \in 1..Len(src) |-> FromInt(src[e][g]) ] ]
        herr == HistogramddError(D, bn.bincounts, bn.binranges)
        h == Histogramdd(StackAxes(dsets, s.axes), D, bn.bincounts, bn.binranges)
    IN  IF \E i \in 1..D : s.axes[i] \notin GroupsOf(src)
        THEN [ err |-> "KeyError", binners |-> bn, reads |-> 0, tasks |-> 0, histdict |-> hist0 ]
        ELSE IF herr # "none"
        THEN [ err |-> herr, binners |-> bn, reads |-> D, tasks |-> 1, histdict |-> hist0 ]
        ELSE [ err |-> "none", binners |-> bn, reads |-> D, tasks |-> 1,
               histdict |-> DictMerge(DictMerge(hist0, [ binned |-> h.hist ]),
                                      LocalCoords(s.axes, h.edges, "edge")) ]

DistributedProcessCall(s) ==
    [ op |-> "distributedProcessBinning", axes |-> s.axes, nbins |-> s.nbins, ranges |-> s.ranges,
      jittered |-> FALSE, jitter_amplitude |-> << >>, histcoord |-> "edge" ]

DistributedProcessBinningWith(specs) ==
    /\ phase = "ready"
    /\ \E s \in specs :
         LET out == DistributedProcessOutcome(source, histdict, s)
         IN  /\ call' = DistributedProcessCall(s)
             /\ err' = out.err
             /\ binners' = out.binners
             /\ histdict' = out.histdict
             /\ reads' = reads + out.reads
             /\ tasks' = tasks + out.tasks
             /\ held' = ReturnedObject(out.err, s.axes, held)
    /\ calls' = calls + 1
    /\ phase' = "done"
    /\ UNCHANGED << batchVars, readout, source, attrs, ncores, hdfdict, edf, splitVars, parVars >>

\* The script goes on to its next call on the hdf5Processor.
Again ==
    /\ phase = "done"
    /\ call.op \in { "localBinning", "distributedBinning", "distributedProcessBinning" }
    /\ calls < MaxCalls
    /\ phase' = "ready"
    /\ UNCHANGED << batchVars, readout, procVars, call, err, reads, tasks, splitVars, parVars >>

Sources == SeqsUpTo(EventPool, MaxEvents)
NcoresArgs == { None } \cup { Some(n) : n \in (-1)..(NCpu + 1) }

InitProcessorWith(src, ncoresArg, at) ==
    /\ source = src
    /\ attrs = at
    /\ ncores = InitNcores(ncoresArg)
    /\ binners = NoAttrs
    /\ hdfdict = NoAttrs
    /\ edf = << >>
    /\ histdict = NoAttrs
    /\ calls = 0
    /\ held = NothingHeld
    /\ call = NoCall
    /\ err = "none"
    /\ phase = "ready"
    /\ reads = 0
    /\ tasks = 0
    /\ eventList = << >>
    /\ splitTasks = {}
    /\ fsys = NoAttrs
    /\ fattrs = NoAttrs
    /\ saved = None
    /\ splitFilepaths = << >>
    /\ files = << >>
    /\ pbinners = NoAttrs
    /\ computed = NoAttrs
    /\ order = << >>
    /\ results = NoAttrs
    /\ combinedresult = NoAttrs
    /\ batchStart = 0
    /\ coreTasks = << >>
    /\ coreResults = NoAttrs
    /\ partitionResults = << >>
    /\ fullResult = NoAttrs
    /\ batches = << >>
    /\ loopSteps = 0
    /\ readout = NoAttrs

\* A file without attributes
InitProcessor(src, ncoresArg) == InitProcessorWith(src, ncoresArg, NoFileAttrs)

\* A processor opened with the default worker count, then one local binning call.
Init == \E src \in Sources : InitProcessor(src, None)

Next == LocalBinning

Spec == Init /\ [][Next]_vars

\* A processor opened with any ncores argument, then one chunked binning call.
InitDist == \E src \in Sources, a \in NcoresArgs : InitProcessor(src, a)

NextDist == DistributedBinning

SpecDist == InitDist /\ [][NextDist]_vars

\* A processor opened on a short source, then one local binning call with jitter.
InitJit == \E src \in SeqsUpTo(EventPool, MaxJitEvents) : InitProcessor(src, None)

NextJit == LocalBinningJittered

SpecJit == InitJit /\ [][NextJit]_vars

(***************************************************************************)
(* hdf5Splitter: one file split into nsplit files by dask tasks.           *)
(***************************************************************************)
\* The sources offered for splitting: events at the two ends of the ranges.
SplitEventPool == { [ X |-> 0, Y |-> 3 ], [ X |-> 2, Y |-> 0 ] }
SplitSources == SeqsUpTo(SplitEventPool, MaxEvents)

\* A variant of the boundaries without the end point: nsplit + 1 integers
\* from 0 that stop short of eventLen.
SplitEventListOpen(eventLen, nsplit) ==
    [ j \in 1..(nsplit + 1) |-> ((j - 1) * eventLen) \div (nsplit + 1) ]

\* np.linspace(0, self.eventLen, nsplit + 1, dtype='int')
SplitEventList(eventLen, nsplit) ==
    LET y == Linspace(FromInt(0), FromInt(eventLen), nsplit + 1)
    IN  [ j \in 1..(nsplit + 1) |-> Floor(y[j]) ]

\* A variant of readGroup whose slice takes the element at amax as well.
ReadGroupInclusive(src, amin, amax) ==
    SubSeq(src, Min2(amin, Len(src)) + 1, Min2(amax + 1, Len(src)))

\* readGroup(element, gp, amin, amax) for every group: element.get(g)[slice(amin, amax)],
\* the events amin..amax-1 (0-based), clipped to the length of the group.
ReadGroup(src, amin, amax) ==
    SubSeq(src, Min2(amin, Len(src)) + 1, Min2(amax, Len(src)))

\* A variant of the attribute loops that copies nothing.
CopyNoAttrs(a) == NoAttrs

\* The attribute loops of _split_file: every key of the source's attributes is
\* assigned, with its value, to the attributes of the target.
CopyAttrs(a) == [ k \in DOMAIN a |-> a[k] ]

\* The attributes _split_file leaves on a split file: those of the file, and
\* for every group name of the original (self.groupNames) those of the group.
SplitFileAttrs(src, at) ==
    [ file |-> CopyAttrs(at.file),
      groups |-> [ g \in GroupsOf(src) |-> CopyAttrs(GroupAttrs(at, g)) ] ]

\* splitter.split(nsplit): the boundaries are computed and the tasks are built.
Split ==
    /\ phase = "ready"
    /\ \E nsplit \in 1..MaxSplit :
         /\ call' = [ op |-> "split", nsplit |-> nsplit ]
         /\ eventList' = SplitEventList(Len(source), nsplit)
         /\ splitTasks' = 0..(nsplit - 1)
    /\ splitFilepaths' = << >>
    /\ phase' = "splitting"
    /\ UNCHANGED << batchVars, readout, procVars, err, reads, tasks, fsys, fattrs, saved, parVars >>

\* One _split_file(idx, save_addr, namestr) task runs; the tasks run in any order.
SplitFile ==
    /\ phase = "splitting"
    /\ \E idx \in splitTasks :
         LET evmin == eventList[idx + 1]
             evmax == eventList[idx + 2]
             fpath == idx + 1
         IN  /\ fsys' = DictMerge(fsys, fpath :> ReadGroup(source, evmin, evmax))
             /\ fattrs' = DictMerge(fattrs, fpath :> SplitFileAttrs(source, attrs))
             /\ splitTasks' = splitTasks \ { idx }
    /\ reads' = reads + Cardinality(Streams)
    /\ UNCHANGED << batchVars, readout, procVars, call, err, phase, tasks, eventList, splitFilepaths, saved, parVars >>

\* d.compute(*tasks) returns the paths in the order of the tasks.
SplitReturn ==
    /\ phase = "splitting"
    /\ splitTasks = {}
    /\ splitFilepaths' = [ i \in 1..(Len(eventList) - 1) |-> i ]
    /\ phase' = "split"
    /\ UNCHANGED << batchVars, readout, procVars, call, err, reads, tasks, eventList, splitTasks, fsys, fattrs, saved, parVars >>

(***************************************************************************)
(* parallelHDF5Processor: one binning task per file, reduced by addition.  *)
(***************************************************************************)
RECURSIVE Natsorted(_)
\* nts.natsorted(terms) of file names that differ in their number only
Natsorted(terms) ==
    IF Len(terms) = 0 THEN << >>
    ELSE LET m == CHOOSE i \in 1..Len(terms) : \A j \in 1..Len(terms) : terms[i] <= terms[j]
         IN  << terms[m] >> \o Natsorted(SubSeq(terms, 1, m - 1) \o SubSeq(terms, m + 1, Len(terms)))

\* FileCollection._sort_terms(terms, parameter)
SortTerms(terms, parameter) == IF parameter THEN Natsorted(terms) ELSE terms

\* parallelHDF5Processor(files=splitter.splitFilepaths)
OpenSplitFiles ==
    /\ phase = "split"
    /\ files' = SortTerms(splitFilepaths, TRUE)
    /\ results' = NoAttrs
    /\ combinedresult' = NoAttrs
    /\ phase' = "opened"
    /\ UNCHANGED << batchVars, readout, procVars, call, err, reads, tasks, splitVars, pbinners, computed, order >>

\* A variant of _arraysum that keeps its second argument only.
ArraysumSecond(arraya, arrayb) == arrayb

\* parallelHDF5Processor._arraysum(arraya, arrayb)
Arraysum(arraya, arrayb) == ArrayAdd(arraya, arrayb)

RECURSIVE ReduceFrom(_, _, _)
ReduceFrom(acc, seq, k) ==
    IF k > Len(seq) THEN acc ELSE ReduceFrom(Arraysum(acc, seq[k]), seq, k + 1)
\* functools.reduce(self._arraysum, seq) of a non-empty seq
Reduce(seq) == ReduceFrom(seq[1], seq, 2)

\* utils.calcax(start, end, steps, ret): steps + 1 evenly spaced edges from
\* start to end, or the midpoints between them.
Calcax(start, end, steps, ret) ==
    LET edges == Linspace(FromInt(start), FromInt(end), steps + 1)
    IN  IF ret = "midpoint" THEN Midpoints(edges) ELSE edges

\* What localBinning returns: self.histdict for ret='dict', and for
\* ret='histogram' the popped 'binned' entry.
LocalBinningReturn(out, ret) ==
    IF out.err # "none" THEN [ err |-> out.err ]
    ELSE IF ret = "histogram" THEN [ err |-> "none", value |-> out.histdict["binned"] ]
    ELSE [ err |-> "none", value |-> out.histdict ]

Schedulers == { "threads", "processes", "synchronous" }

\* The specifications offered to parallelBinning: the valid ones and a
\* single bin count for all axes (0 included).
ParSpecs == ValidSpecs \cup ScalarSpecs

ParallelCall(s, scheduler, histcoord, combine) ==
    [ op |-> "parallelBinning", axes |-> s.axes, nbins |-> s.nbins, ranges |-> s.ranges,
      scheduler |-> scheduler, histcoord |-> histcoord, combine |-> combine ]

\* parallelBinning(axes, nbins, ranges, scheduler, combine, histcoord) up to
\* d.compute: the attributes are stored, the containers are reset and one
\* task per file is built.
ParallelStartWith(specs, schedulers, histcoords, combines) ==
    /\ phase = "opened"
    /\ \E s \in specs, sch \in schedulers, hc \in histcoords, cmb \in combines :
         /\ call' = ParallelCall(s, sch, hc, cmb)
         /\ pbinners' = AddBinners(s.axes, s.nbins, s.ranges)
    /\ results' = NoAttrs
    /\ combinedresult' = NoAttrs
    /\ computed' = NoAttrs
    /\ order' = << >>
    /\ tasks' = tasks + Len(files)
    /\ phase' = "binning"
    /\ UNCHANGED << batchVars, readout, procVars, err, reads, splitVars, files >>

ParallelStart == ParallelStartWith(ParSpecs, Schedulers, HistCoords, { TRUE })

\* parallelBinning with the default scheduler and histcoord
ParallelStartDefault == ParallelStartWith(ParSpecs, { "threads" }, { "midpoint" }, { TRUE })

\* parallelBinning(axes, nbins, ranges, scheduler, combine=False)
ParallelStartSeparate == ParallelStartWith(ParSpecs, Schedulers, { "midpoint" }, { FALSE })

\* One task hdf5Processor(f).localBinning(axes, nbins, ranges, **binning_kwds)
\* runs to its end: binning_kwds holds ret='histogram' when combine is True
\* and nothing otherwise.  The tasks complete in any order; the synchronous
\* scheduler runs no task after one that raised.
BinTask ==
    /\ phase = "binning"
    /\ \E i \in (1..Len(files)) \ DOMAIN computed :
         LET c == LocalCall(BinSpec(call.axes, call.nbins, call.ranges), FALSE, << >>, "midpoint")
             out == LocalBinningOutcome(fsys[files[i]], NoAttrs, c, NoNoise)
             ret == IF call.combine THEN "histogram" ELSE "dict"
         IN  /\ computed' = DictMerge(computed, i :> LocalBinningReturn(out, ret))
             /\ order' = Append(order, i)
    /\ call.scheduler = "synchronous" => \A j \in DOMAIN computed : computed[j].err = "none"
    /\ reads' = reads + Cardinality(Streams)
    /\ UNCHANGED << batchVars, readout, procVars, call, err, phase, tasks, splitVars, files, pbinners, results,
                    combinedresult >>

\* A variant of the end of a wave with a task that raised: the histograms of
\* the tasks that returned are summed into combinedresult['binned'].
ParallelRaiseKeepingPartial ==
    /\ phase = "binning"
    /\ \E i \in DOMAIN computed :
         /\ computed[i].err # "none"
         /\ err' = computed[i].err
    /\ LET done == { i \in DOMAIN computed : computed[i].err = "none" }
       IN  combinedresult' =
               IF done = {} \/ ~call.combine THEN combinedresult
               ELSE [ binned |-> [ shape |-> computed[CHOOSE i \in done : TRUE].value.shape,
                                   data |-> [ ix \in DOMAIN computed[CHOOSE i \in done : TRUE].value.data |->
                                                SumOver(done, [ i \in done |-> computed[i].value.data[ix] ]) ] ] ]
    /\ phase' = "done"
    /\ UNCHANGED << batchVars, readout, procVars, call, reads, tasks, splitVars, files, pbinners, computed, order,
                    results >>

\* d.compute raises the exception of a task that raised: parallelBinning
\* ends there, with the containers as they were reset.
ParallelRaise ==
    /\ phase = "binning"
    /\ \E i \in DOMAIN computed :
         /\ computed[i].err # "none"
         /\ err' = computed[i].err
    /\ phase' = "done"
    /\ UNCHANGED << batchVars, readout, procVars, call, reads, tasks, splitVars, parVars >>

\* The coordinate loop of parallelBinning over enumerate(self.binaxes).
ParallelCoords(bn, histcoord) ==
    [ ax \in { bn.binaxes[i] : i \in 1..bn.nbinaxes } |->
        LET iax == CHOOSE i \in 1..bn.nbinaxes :
                       bn.binaxes[i] = ax /\ \A j \in (i + 1)..bn.nbinaxes : bn.binaxes[j] # ax
        IN  Calcax(bn.binranges[iax][1], bn.binranges[iax][2], bn.bincounts.val[iax], histcoord) ]

\* All tasks returned.  With combine=True the results, in the order of the
\* files, are reduced into combinedresult['binned'], then the coordinates are
\* computed; with combine=False they are stored in self.results.
ParallelReduce ==
    /\ phase = "binning"
    /\ DOMAIN computed = 1..Len(files)
    /\ \A i \in DOMAIN computed : computed[i].err = "none"
    /\ IF ~call.combine
       THEN /\ err' = "none"
            /\ results' = [ i \in 1..Len(files) |-> computed[i].value ]
            /\ UNCHANGED combinedresult
       ELSE /\ UNCHANGED results
            /\ IF Len(files) = 0
               THEN /\ err' = "TypeError"
                    /\ UNCHANGED combinedresult
               ELSE LET binned == Reduce([ i \in 1..Len(files) |-> computed[i].value ])
                    IN  IF pbinners.bincounts.kind # "list"
                        THEN /\ err' = "TypeError"
                             /\ combinedresult' = [ binned |-> binned ]
                        ELSE /\ err' = "none"
                             /\ combinedresult' =
                                    DictMerge([ binned |-> binned ],
                                              ParallelCoords(pbinners, call.histcoord))
    /\ phase' = "done"
    /\ UNCHANGED << batchVars, readout, procVars, call, reads, tasks, splitVars, files, pbinners, computed, order >>

\* A variant of the stacked sum that keeps the first array only.
SumAxis0First(arrays, k) == arrays[k]

RECURSIVE SumAxis0From(_, _)
\* np.stack(arrays, axis=0).sum(axis=0) of arrays k.. of one shape
SumAxis0From(arrays, k) ==
    IF k = Len(arrays) THEN arrays[k] ELSE ArrayAdd(arrays[k], SumAxis0From(arrays, k + 1))

\* Whether the try block of combineResults runs to its end: every
\* self.results[i]['binned'], i in range(self.nfiles), exists, there is one at
\* least and np.stack finds them of one shape.
CombineSucceeds(res, nfiles) ==
    /\ nfiles >= 1
    /\ \A i \in 1..nfiles : i \in DOMAIN res /\ "binned" \in DOMAIN res[i]
    /\ \A i \in 1..nfiles : res[i]["binned"].shape = res[1]["binned"].shape

\* combineResults(ret=True): self.combinedresult afterwards, which is also
\* what the call returns.  Any exception of the try block is passed over.
CombineResultsOutcome(res, nfiles, combined0) ==
    IF CombineSucceeds(res, nfiles)
    THEN DictMerge(res[1], [ binned |-> SumAxis0From([ i \in 1..nfiles |-> res[i]["binned"] ], 1) ])
    ELSE combined0

\* processor.combineResults()
CombineResults ==
    /\ phase = "done"
    /\ combinedresult' = CombineResultsOutcome(results, Len(files), combinedresult)
    /\ err' = "none"
    /\ phase' = "combined"
    /\ UNCHANGED << batchVars, readout, procVars, call, reads, tasks, splitVars, files, pbinners, computed, order,
                    results >>

\* The specifications of the results a caller stores in processor.results:
\* one bin and MaxBins bins on the same axis.
AssignSpecs ==
    { BinSpec(<< "X" >>, ListBins(<< nb >>), << << 0, 2 >> >>) : nb \in { 1, MaxBins } }

\* processor.results = [hdf5Processor(f).localBinning(...) for f in files],
\* each file binned with a specification of its own.
AssignResults ==
    /\ phase = "opened"
    /\ Len(files) >= 1
    /\ \E ss \in [ 1..Len(files) -> AssignSpecs ] :
         results' = [ i \in 1..Len(files) |->
                        LocalBinningOutcome(fsys[files[i]], NoAttrs,
                            LocalCall(ss[i], FALSE, << >>, "midpoint"), NoNoise).histdict ]
    /\ call' = [ op |-> "assignResults" ]
    /\ phase' = "done"
    /\ UNCHANGED << batchVars, readout, procVars, err, reads, tasks, splitVars, files, pbinners, computed, order,
                    combinedresult >>

\* A splitter opened on a source, which is split, and the split files binned
\* in parallel.
InitSplit == \E src \in SplitSources : InitProcessor(src, None)

NextSplit ==
    \/ Split
    \/ SplitFile
    \/ SplitReturn
    \/ OpenSplitFiles
    \/ ParallelStartDefault
    \/ BinTask
    \/ ParallelRaise
    \/ ParallelReduce

SpecSplit == InitSplit /\ [][NextSplit]_vars

\* The files offered to a parallel processor, and a processor opened on a
\* list of them.
FilePool ==
    { << [ X |-> 1, Y |-> 1 ] >>, << [ X |-> 0, Y |-> 3 ], [ X |-> 2, Y |-> 0 ] >> }
FileLists == SeqsUpTo(FilePool, MaxFiles)

\* A parallel processor on the files fl, with combinedresult as an earlier
\* call left it ({} when there was none).
InitParallel(fl, combined0) ==
    /\ source = << >>
    /\ attrs = NoFileAttrs
    /\ ncores = NCpu
    /\ binners = NoAttrs
    /\ hdfdict = NoAttrs
    /\ edf = << >>
    /\ histdict = NoAttrs
    /\ calls = 0
    /\ held = NothingHeld
    /\ call = NoCall
    /\ err = "none"
    /\ phase = "opened"
    /\ reads = 0
    /\ tasks = 0
    /\ eventList = << >>
    /\ splitTasks = {}
    /\ fsys = fl
    /\ fattrs = NoAttrs
    /\ saved = None
    /\ splitFilepaths = << >>
    /\ files = SortTerms([ i \in 1..Len(fl) |-> i ], TRUE)
    /\ pbinners = NoAttrs
    /\ computed = NoAttrs
    /\ order = << >>
    /\ results = NoAttrs
    /\ combinedresult = combined0
    /\ batchStart = 0
    /\ coreTasks = << >>
    /\ coreResults = NoAttrs
    /\ partitionResults = << >>
    /\ fullResult = NoAttrs
    /\ batches = << >>
    /\ loopSteps = 0
    /\ readout = NoAttrs

InitPar == \E fl \in FileLists : InitParallel(fl, NoAttrs)

NextPar ==
    \/ ParallelStart
    \/ BinTask
    \/ ParallelRaise
    \/ ParallelReduce

SpecPar == InitPar /\ [][NextPar]_vars

\* Files of which one lacks the stream Y, and what parallelBinning of X alone
\* leaves in combinedresult for a list of them.
FailFilePool == { << [ X |-> 1, Y |-> 1 ] >>, << [ X |-> 2 ] >> }
FailFileLists == SeqsUpTo(FailFilePool, MaxFiles)
GoodSpec == BinSpec(<< "X" >>, ListBins(<< MaxBins >>), << << 0, 2 >> >>)
EarlierCombined(fl) ==
    IF Len(fl) = 0 THEN NoAttrs
    ELSE DictMerge(
           [ binned |-> Reduce([ i \in 1..Len(fl) |->
                 LocalBinningOutcome(fl[i], NoAttrs, LocalCall(GoodSpec, FALSE, << >>, "midpoint"),
                                     NoNoise).histdict["binned"] ]) ],
           ParallelCoords(AddBinners(GoodSpec.axes, GoodSpec.nbins, GoodSpec.ranges), "midpoint"))

\* The specifications offered where tasks are to raise: a valid one, its
\* defects, and axes of which one is no stream of the file.
AbsentAxisSpecs ==
    { BinSpec(<< "Z" >>, ListBins(<< 1 >>), << << 0, 2 >> >>),
      BinSpec(<< "X", "Z" >>, ListBins(<< 1, 1 >>), << << 0, 2 >>, << 0, 2 >> >>) }
FailSpecs == { GoodSpec } \cup DefectsOf(GoodSpec) \cup AbsentAxisSpecs
FailSources == { << >>, << [ X |-> 1, Y |-> 1 ] >>, << [ X |-> 0, Y |-> 3 ], [ X |-> 2, Y |-> 0 ] >> }

FailParallelStart == ParallelStartWith(ValidSpecs \cup FailSpecs, Schedulers, { "midpoint" }, BOOLEAN)
FailLocalBinning == LocalBinningWith(FailSpecs, { "midpoint" })
FailDistributedBinning == DistributedBinningWith(FailSpecs)
FailDistributedProcessBinning == DistributedProcessBinningWith(FailSpecs)

\* Binning calls whose tasks may raise: a parallel processor on files of which
\* some lack a stream, after an earlier call or none; or a processor on one
\* file, called again and again.
InitFail ==
    \/ \E fl \in FailFileLists, earlier \in BOOLEAN :
         InitParallel(fl, IF earlier THEN EarlierCombined(fl) ELSE NoAttrs)
    \/ \E src \in FailSources : InitProcessor(src, None)

NextFail ==
    \/ FailParallelStart
    \/ BinTask
    \/ ParallelRaise
    \/ ParallelReduce
    \/ FailLocalBinning
    \/ FailDistributedBinning
    \/ FailDistributedProcessBinning
    \/ Again

SpecFail == InitFail /\ [][NextFail]_vars

\* A parallel processor whose files are binned with combine=False, or whose
\* results are stored by the caller, and then combined.
NextComb ==
    \/ ParallelStartSeparate
    \/ BinTask
    \/ ParallelRaise
    \/ ParallelReduce
    \/ AssignResults
    \/ CombineResults

SpecComb == InitPar /\ [][NextComb]_vars

(***************************************************************************)
(* saveHistogram -> saveDict in the hierarchical layout ('h5'/'hdf5').     *)
(***************************************************************************)
\* The name 'binned/' + sln of the single dataset, and 'binned/' + sln + str(i)
\* of the i-th slice.
DatasetName(sln, index) == [ group |-> "binned", base |-> sln, index |-> index ]
\* 'axes/' + k
AxisDatasetName(k) == [ group |-> "axes", base |-> k, index |-> None ]

\* A variant of the cut that takes the slice at index 0 whatever i is.
RollaxisAtZero(arr, axis, i) ==
    LET shape2 == [ k \in 1..(Len(arr.shape) - 1) |->
                      IF k <= axis THEN arr.shape[k] ELSE arr.shape[k + 1] ]
    IN  [ shape |-> shape2,
          data |-> [ ix \in IndexSet(shape2) |->
                       arr.data[[ k \in 1..Len(arr.shape) |->
                                    IF k <= axis THEN ix[k]
                                    ELSE IF k = axis + 1 THEN 0 ELSE ix[k - 1] ]] ] ]

\* np.rollaxis(arr, axis)[i,...]: the slice of arr at index i of its axis
\* `axis` (0-based), the other axes in their order.
Rollaxis(arr, axis, i) ==
    LET shape2 == [ k \in 1..(Len(arr.shape) - 1) |->
                      IF k <= axis THEN arr.shape[k] ELSE arr.shape[k + 1] ]
    IN  [ shape |-> shape2,
          data |-> [ ix \in IndexSet(shape2) |->
                       arr.data[[ k \in 1..Len(arr.shape) |->
                                    IF k <= axis THEN ix[k]
                                    ELSE IF k = axis + 1 THEN i ELSE ix[k - 1] ]] ] ]

\* The datasets written under 'binned/' and the exception raised there.
SaveBinned(bn, h, sln, cutaxis) ==
    IF "nbinaxes" \notin DOMAIN bn
    THEN [ err |-> "AttributeError", file |-> NoAttrs ]
    ELSE IF bn.nbinaxes > 4
    THEN [ err |-> "NotImplementedError", file |-> NoAttrs ]
    ELSE IF "binned" \notin DOMAIN h
    THEN [ err |-> "KeyError", file |-> NoAttrs ]
    ELSE IF bn.nbinaxes < 4
    THEN [ err |-> "none", file |-> (DatasetName(sln, None) :> h["binned"]) ]
    ELSE IF cutaxis >= Len(h["binned"].shape)
    THEN [ err |-> "AxisError", file |-> NoAttrs ]
    ELSE [ err |-> "none",
           file |-> [ nm \in { DatasetName(sln, Some(i)) : i \in 0..(h["binned"].shape[cutaxis + 1] - 1) } |->
                        Rollaxis(h["binned"], cutaxis, nm.index.val) ] ]

\* saveDict(processor, 'histdict', form='h5', slicename=sln, cutaxis=cutaxis):
\* the file is opened for writing, the histogram is stored by dimension, then
\* one dataset per binning axis; the file is closed whatever happens.
SaveDictOutcome(bn, h, sln, cutaxis) ==
    LET b == SaveBinned(bn, h, sln, cutaxis)
    IN  IF b.err # "none"
        THEN b
        ELSE IF \E i \in 1..Len(bn.binaxes) : bn.binaxes[i] \notin DOMAIN h
        THEN [ err |-> "KeyError", file |-> b.file ]
        ELSE [ err |-> "none",
               file |-> DictMerge(b.file,
                            [ nm \in { AxisDatasetName(bn.binaxes[i]) : i \in 1..Len(bn.binaxes) } |->
                                h[nm.base] ]) ]

SliceNames == { "V", "W" }
CutAxes == 0..3

\* hdf5Processor.saveHistogram(form='h5', slicename=..., cutaxis=...): every
\* exception of saveDict is replaced by one Exception.
SaveHistogram ==
    /\ phase = "done"
    /\ call.op = "localBinning"
    /\ \E sln \in SliceNames, cutaxis \in CutAxes :
         LET out == SaveDictOutcome(binners, histdict, sln, cutaxis)
         IN  /\ call' = [ op |-> "saveHistogram", slicename |-> sln, cutaxis |-> cutaxis ]
             /\ err' = IF out.err = "none" THEN "none" ELSE "Exception"
             /\ saved' = Some(out.file)
    /\ phase' = "saved"
    /\ UNCHANGED << batchVars, readout, procVars, reads, tasks, eventList, splitTasks, fsys, fattrs, splitFilepaths,
                    parVars >>

\* A processor on a file of five streams, one binning call over the first one
\* to five of them, then saveHistogram.
SaveStreamOrder == << "X", "Y", "Z", "T", "E" >>
SaveEvent(v) == [ g \in { SaveStreamOrder[i] : i \in 1..Len(SaveStreamOrder) } |-> v ]
SaveSources == { << SaveEvent(0) >>, << SaveEvent(0), SaveEvent(1) >> }
SaveSpecsOn(D) ==
    { BinSpec(SubSeq(SaveStreamOrder, 1, D), ListBins(nb), [ i \in 1..D |-> << 0, 2 >> ]) :
        nb \in [1..D -> 1..MaxBins] }
SaveSpecs == UNION { SaveSpecsOn(D) : D \in 1..Len(SaveStreamOrder) }

SaveLocalBinning == LocalBinningWith(SaveSpecs, { "midpoint" })

InitSave == \E src \in SaveSources : InitProcessor(src, None)

NextSave ==
    \/ SaveLocalBinning
    \/ SaveHistogram

SpecSave == InitSave /\ [][NextSave]_vars

\* A splitter on a file with or without attributes of its own and of its
\* groups, split into one file or more.
FileAttrPool == { NoAttrs, [ Title |-> "run" ], [ Title |-> "run", Date |-> "d1" ] }
GroupAttrPool == { NoAttrs, [ X |-> [ Name |-> "X" ] ],
                   [ X |-> [ Name |-> "X" ], Y |-> [ Name |-> "Y", Unit |-> "ns" ] ] }
AttrPool == { [ file |-> f, groups |-> g ] : f \in FileAttrPool, g \in GroupAttrPool }
AttrSources == SeqsUpTo(SplitEventPool, MaxSplit)

InitSplitAttrs == \E src \in AttrSources, at \in AttrPool : InitProcessorWith(src, None, at)

NextSplitAttrs ==
    \/ Split
    \/ SplitFile
    \/ SplitReturn

SpecSplitAttrs == InitSplitAttrs /\ [][NextSplitAttrs]_vars

(***************************************************************************)
(* updateHistogram of both processors.                                     *)
(***************************************************************************)
\* The bound i of a slice a[i:j] on n entries: negative bounds count from the
\* end, bounds beyond either end are clipped.
SliceIndex(i, n) ==
    IF i < 0 THEN (IF i + n < 0 THEN 0 ELSE i + n) ELSE (IF i > n THEN n ELSE i)

\* s[rg[0]:rg[1]] of a one-dimensional array
SliceSeq(s, rg) ==
    LET a == SliceIndex(rg[1], Len(s))
        b == SliceIndex(rg[2], Len(s))
    IN  IF a >= b THEN << >> ELSE SubSeq(s, a + 1, b)

\* A variant of the slice along an axis that always slices the first axis.
SliceAxisFirst(arr, seq, rg) ==
    LET n == arr.shape[1]
        a == SliceIndex(rg[1], n)
        b == SliceIndex(rg[2], n)
        shape2 == [ arr.shape EXCEPT ![1] = IF a >= b THEN 0 ELSE b - a ]
    IN  [ shape |-> shape2,
          data |-> [ ix \in IndexSet(shape2) |-> arr.data[[ ix EXCEPT ![1] = ix[1] + a ]] ] ]

\* np.moveaxis(np.moveaxis(arr, seq, 0)[rg[0]:rg[1],...], 0, seq): the slice of
\* arr along its axis seq (0-based).
SliceAxis(arr, seq, rg) ==
    LET n == arr.shape[seq + 1]
        a == SliceIndex(rg[1], n)
        b == SliceIndex(rg[2], n)
        shape2 == [ arr.shape EXCEPT ![seq + 1] = IF a >= b THEN 0 ELSE b - a ]
    IN  [ shape |-> shape2,
          data |-> [ ix \in IndexSet(shape2) |->
                       arr.data[[ ix EXCEPT ![seq + 1] = ix[seq + 1] + a ]] ] ]

\* np.where(ax == binaxes)[0][0]: the first position (0-based) of ax in binaxes
WhereFirst(ax, binaxes) ==
    (CHOOSE i \in 1..Len(binaxes) : binaxes[i] = ax /\ \A j \in 1..(i - 1) : binaxes[j] # ax) - 1

\* The loop of updateHistogram over zip(seqs, axes, sliceranges), from its
\* k-th round on: the coordinate array is sliced first, then the histogram.
RECURSIVE UpdateFrom(_, _, _, _, _)
UpdateFrom(h, binaxes, axes, sliceranges, k) ==
    IF k > Min2(Len(axes), Len(sliceranges))
    THEN [ err |-> "none", hist |-> h ]
    ELSE LET ax == axes[k]
             seq == WhereFirst(ax, binaxes)
         IN  IF ax \notin DOMAIN h
             THEN [ err |-> "KeyError", hist |-> h ]
             ELSE LET h1 == [ h EXCEPT ![ax] = SliceSeq(h[ax], sliceranges[k]) ]
                  IN  IF "binned" \notin DOMAIN h1
                      THEN [ err |-> "KeyError", hist |-> h1 ]
                      ELSE IF seq >= Len(h1["binned"].shape)
                      THEN [ err |-> "AxisError", hist |-> h1 ]
                      ELSE UpdateFrom([ h1 EXCEPT !["binned"] =
                                            SliceAxis(h1["binned"], seq, sliceranges[k]) ],
                                      binaxes, axes, sliceranges, k + 1)

\* updateHistogram(axes, sliceranges) on the dictionary h of a processor whose
\* binning attributes are bn: the exception raised and the dictionary left.
UpdateHistogramOutcome(bn, h, axes, sliceranges) ==
    IF "binaxes" \notin DOMAIN bn
    THEN [ err |-> "AttributeError", hist |-> h ]
    ELSE IF \E i \in 1..Len(axes) : \A j \in 1..Len(bn.binaxes) : bn.binaxes[j] # axes[i]
    THEN [ err |-> "IndexError", hist |-> h ]
    ELSE UpdateFrom(h, bn.binaxes, axes, sliceranges, 1)

UpdateCall(axes, sliceranges) ==
    [ op |-> "updateHistogram", axes |-> axes, sliceranges |-> sliceranges ]

\* The axes lists and the bin-index ranges [a, b) offered to updateHistogram.
UpdateAxes == { << "X" >>, << "Y" >>, << "X", "Y" >> }
SlicePool == { rg \in (0..MaxBins) \X (1..MaxBins) : rg[1] < rg[2] }

\* hdf5Processor.updateHistogram(axes, sliceranges) after a binning call
UpdateHistogram ==
    /\ phase = "done"
    /\ call.op \in { "localBinning", "distributedBinning", "distributedProcessBinning" }
    /\ \E axes \in UpdateAxes :
       \E sr \in [1..Len(axes) -> SlicePool] :
         LET out == UpdateHistogramOutcome(binners, histdict, axes, sr)
         IN  /\ call' = UpdateCall(axes, sr)
             /\ err' = out.err
             /\ histdict' = out.hist
    /\ phase' = "updated"
    /\ UNCHANGED << batchVars, readout, source, attrs, ncores, binners, hdfdict, edf, calls, held, reads, tasks,
                    splitVars, parVars >>

\* parallelHDF5Processor.updateHistogram(axes, sliceranges) after parallelBinning
ParallelUpdateHistogram ==
    /\ phase = "done"
    /\ call.op = "parallelBinning"
    /\ \E axes \in UpdateAxes :
       \E sr \in [1..Len(axes) -> SlicePool] :
         LET out == UpdateHistogramOutcome(pbinners, combinedresult, axes, sr)
         IN  /\ call' = UpdateCall(axes, sr)
             /\ err' = out.err
             /\ combinedresult' = out.hist
    /\ phase' = "updated"
    /\ UNCHANGED << batchVars, readout, procVars, reads, tasks, splitVars, files, pbinners, computed, order,
                    results >>

\* A processor on a small file, or a parallel processor on small files; binning
\* calls over the two streams in either order, one of them with an inverted
\* range; then updateHistogram.
UpdateEventPool == { [X |-> x, Y |-> 1] : x \in 0..2 }
UpdateSources ==
    { << >> } \cup { << e >> : e \in UpdateEventPool }
        \cup { << [X |-> 0, Y |-> 1], [X |-> 1, Y |-> 1] >>, << [X |-> 1, Y |-> 1], [X |-> 2, Y |-> 1] >> }
UpdateFileLists ==
    { << s >> : s \in UpdateSources \ { << >> } }
        \cup { << << [X |-> 0, Y |-> 1] >>, << [X |-> 1, Y |-> 1] >> >> }
SpecXY == BinSpec(<< "X", "Y" >>, ListBins(<< MaxBins, 1 >>), << << 0, MaxBins >>, << 0, 2 >> >>)
SpecYX == BinSpec(<< "Y", "X" >>, ListBins(<< 1, MaxBins >>), << << 0, 2 >>, << 0, MaxBins >> >>)
SpecX == BinSpec(<< "X" >>, ListBins(<< MaxBins >>), << << 0, MaxBins >> >>)
UpdateSpecs == { SpecXY, SpecYX, SpecX, [ SpecYX EXCEPT !.ranges[2] = InvertedRange ] }

UpdateLocalBinning == LocalBinningWith(UpdateSpecs, HistCoords)
UpdateDistributedBinning == DistributedBinningWith(UpdateSpecs)
UpdateDistributedProcessBinning == DistributedProcessBinningWith(UpdateSpecs)
UpdateParallelStart == ParallelStartWith(UpdateSpecs, { "threads" }, HistCoords, { TRUE })

InitUpdate ==
    \/ \E src \in UpdateSources : InitProcessor(src, None)
    \/ \E fl \in UpdateFileLists : InitParallel(fl, NoAttrs)

NextUpdate ==
    \/ UpdateLocalBinning
    \/ UpdateDistributedBinning
    \/ UpdateDistributedProcessBinning
    \/ Again
    \/ UpdateHistogram
    \/ UpdateParallelStart
    \/ BinTask
    \/ ParallelRaise
    \/ ParallelReduce
    \/ ParallelUpdateHistogram

SpecUpdate == InitUpdate /\ [][NextUpdate]_vars

(***************************************************************************)
(* Binning calls that pass binDict.                                        *)
(***************************************************************************)
\* binDict = {'axes': ..., 'nbins': ..., 'ranges': ...} of a specification
DictOf(s) == [ axes |-> s.axes, nbins |-> s.nbins, ranges |-> s.ranges ]

\* _addBinners with binDict: the keys are read in the order axes, nbins,
\* ranges inside one try block whose except clause passes, so the attributes
\* assigned before a missing key stay assigned and the others keep what they
\* held.
AddBinnersDict(bn0, bd) ==
    IF "axes" \notin DOMAIN bd THEN bn0
    ELSE LET b1 == DictMerge(bn0, [ binaxes |-> bd["axes"], nbinaxes |-> Len(bd["axes"]) ])
         IN  IF "nbins" \notin DOMAIN bd THEN b1
             ELSE LET b2 == DictMerge(b1, [ bincounts |-> bd["nbins"] ])
                  IN  IF "ranges" \notin DOMAIN bd THEN b2
                      ELSE DictMerge(b2, [ binranges |-> bd["ranges"] ])

\* _addBinners(axes, nbins, ranges, binDict): args is None when axes, nbins
\* and ranges are left at None (self.binaxes = None is assigned, then
\* len(None) raises TypeError).
AddBinnersCall(bn0, args, bd) ==
    IF bd.given THEN [ err |-> "none", binners |-> AddBinnersDict(bn0, bd.val) ]
    ELSE IF ~args.given
    THEN [ err |-> "TypeError", binners |-> DictMerge(bn0, [ binaxes |-> None ]) ]
    ELSE [ err |-> "none",
           binners |-> AddBinners(args.val.axes, args.val.nbins, args.val.ranges) ]

\* localBinning(axes, nbins, ranges, binDict, histcoord) without jitter: the
\* streams are stacked and the coordinates are stored for the names of the
\* axes argument, the histogram uses self.bincounts and self.binranges.
LocalBinningDictOutcome(src, hist0, bn0, args, bd, histcoord) ==
    LET loaded == AssembleGroupsDict(src)
        ab == AddBinnersCall(bn0, args, bd)
        bn == ab.binners
    IN  IF ab.err # "none"
        THEN [ err |-> ab.err, binners |-> bn, hdfdict |-> loaded, histdict |-> hist0 ]
        ELSE IF ~args.given
        THEN [ err |-> "TypeError", binners |-> bn, hdfdict |-> loaded, histdict |-> hist0 ]
        ELSE IF \E i \in 1..Len(args.val.axes) : args.val.axes[i] \notin DOMAIN loaded
        THEN [ err |-> "KeyError", binners |-> bn, hdfdict |-> loaded, histdict |-> hist0 ]
        ELSE IF "bincounts" \notin DOMAIN bn \/ "binranges" \notin DOMAIN bn
        THEN [ err |-> "AttributeError", binners |-> bn, hdfdict |-> NoAttrs, histdict |-> hist0 ]
        ELSE LET D == Len(args.val.axes)
                 herr == HistogramddError(D, bn.bincounts, bn.binranges)
                 h == Histogramdd(StackAxes(loaded, args.val.axes), D, bn.bincounts, bn.binranges)
             IN  IF herr # "none"
                 THEN [ err |-> herr, binners |-> bn, hdfdict |-> NoAttrs, histdict |-> hist0 ]
                 ELSE [ err |-> "none", binners |-> bn, hdfdict |-> NoAttrs,
                        histdict |-> DictMerge(DictMerge(hist0, [ binned |-> h.hist ]),
                                               LocalCoords(args.val.axes, h.edges, histcoord)) ]

\* distributedProcessBinning(axes, nbins, ranges, binDict): the datasets are
\* looked up for the names of the axes argument.
DistributedProcessDictOutcome(src, hist0, bn0, args, bd) ==
    LET ab == AddBinnersCall(bn0, args, bd)
        bn == ab.binners
        dsets == [ g \in GroupsOf(src) |-> [ e \in 1..Len(src) |-> FromInt(src[e][g]) ] ]
    IN  IF ab.err # "none"
        THEN [ err |-> ab.err, binners |-> bn, histdict |-> hist0 ]
        ELSE IF ~args.given
        THEN [ err |-> "TypeError", binners |-> bn, histdict |-> hist0 ]
        ELSE IF \E i \in 1..Len(args.val.axes) : args.val.axes[i] \notin GroupsOf(src)
        THEN [ err |-> "KeyError", binners |-> bn, histdict |-> hist0 ]
        ELSE IF "bincounts" \notin DOMAIN bn \/ "binranges" \notin DOMAIN bn
        THEN [ err |-> "AttributeError", binners |-> bn, histdict |-> hist0 ]
        ELSE LET D == Len(args.val.axes)
                 herr == HistogramddError(D, bn.bincounts, bn.binranges)
                 h == Histogramdd(StackAxes(dsets, args.val.axes), D, bn.bincounts, bn.binranges)
             IN  IF herr # "none"
                 THEN [ err |-> herr, binners |-> bn, histdict |-> hist0 ]
                 ELSE [ err |-> "none", binners |-> bn,
                        histdict |-> DictMerge(DictMerge(hist0, [ binned |-> h.hist ]),
                                               LocalCoords(args.val.axes, h.edges, "edge")) ]

\* distributedBinning(axes, nbins, ranges, binDict): binDataframe receives
\* binDict and never reads it; its tasks and its coordinate loop use the axes,
\* nbins and ranges arguments (binPartition iterates binaxes: TypeError on None).
DistributedDictOutcome(src, hist0, bn0, nc, args, bd) ==
    LET ab == AddBinnersCall(bn0, args, bd)
        sm == SummarizeDataframe(src, nc)
    IN  IF ab.err # "none"
        THEN [ err |-> ab.err, binners |-> ab.binners, histdict |-> hist0 ]
        ELSE IF sm.err # "none"
        THEN [ err |-> sm.err, binners |-> ab.binners, histdict |-> hist0 ]
        ELSE IF ~args.given
        THEN [ err |-> "TypeError", binners |-> ab.binners, histdict |-> hist0 ]
        ELSE LET out == BinDataframe(sm.rows, nc, args.val.axes, args.val.nbins, args.val.ranges)
             IN  [ err |-> out.err, binners |-> ab.binners,
                   histdict |-> IF out.err = "none" THEN out.histdict ELSE hist0 ]

DictCall(op, args, bd, histcoord) ==
    [ op |-> op, args |-> args, binDict |-> bd, histcoord |-> histcoord ]

\* The specifications offered as binDict and as arguments, and the
\* dictionaries that lack one key.
DictSpecs ==
    { BinSpec(<< "Y" >>, ListBins(<< 1 >>), << << 1, 3 >> >>),
      BinSpec(<< "X", "Y" >>, ListBins(<< MaxBins, 1 >>), << << 0, 2 >>, << 1, 3 >> >>) }
DictKeys == { "axes", "nbins", "ranges" }
PartialDicts ==
    { [ k \in DictKeys \ { lacking } |-> DictOf(s)[k] ] : s \in DictSpecs, lacking \in DictKeys }
DictArgs == { None } \cup { Some(s) : s \in DictSpecs }
DictPool == { None } \cup { Some(DictOf(s)) : s \in DictSpecs } \cup { Some(bd) : bd \in PartialDicts }
DictOps == { "localBinning", "distributedProcessBinning", "distributedBinning" }
DictSources == { << [ X |-> 0, Y |-> 3 ] >>, << [ X |-> 2, Y |-> 0 ], [ X |-> 1, Y |-> 1 ] >> }

\* One binning call of the hdf5Processor with its axes, nbins, ranges and
\* binDict arguments given or left at None.
BinningWithDict ==
    /\ phase = "ready"
    /\ \E op \in DictOps, args \in DictArgs, bd \in DictPool :
         LET hc == IF op = "localBinning" THEN "midpoint" ELSE IF op = "distributedBinning" THEN "none" ELSE "edge"
             out == IF op = "localBinning"
                    THEN LocalBinningDictOutcome(source, histdict, binners, args, bd, hc)
                    ELSE IF op = "distributedProcessBinning"
                    THEN DistributedProcessDictOutcome(source, histdict, binners, args, bd)
                    ELSE DistributedDictOutcome(source, histdict, binners, ncores, args, bd)
         IN  /\ call' = DictCall(op, args, bd, hc)
             /\ err' = out.err
             /\ binners' = out.binners
             /\ histdict' = out.histdict
             /\ held' = ReturnedObject(out.err, IF args.given THEN args.val.axes ELSE << >>, held)
             /\ hdfdict' = IF op = "localBinning" THEN out.hdfdict ELSE hdfdict
             /\ edf' = IF op = "distributedBinning" /\ SummarizeDataframe(source, ncores).err = "none"
                                                    /\ (bd.given \/ args.given)
                       THEN SummarizeDataframe(source, ncores).rows ELSE edf
    /\ calls' = calls + 1
    /\ phase' = "done"
    /\ UNCHANGED << batchVars, readout, source, attrs, ncores, reads, tasks, splitVars, parVars >>

\* The script goes on to its next call with binDict.
AgainDict ==
    /\ phase = "done"
    /\ call.op \in DictOps
    /\ calls < MaxCalls
    /\ phase' = "ready"
    /\ UNCHANGED << batchVars, readout, procVars, call, err, reads, tasks, splitVars, parVars >>

InitDict == \E src \in DictSources : InitProcessor(src, None)

NextDict ==
    \/ BinningWithDict
    \/ AgainDict

SpecDict == InitDict /\ [][NextDict]_vars

(***************************************************************************)
(* binDataframe step by step: the batches of its outer loop.               *)
(***************************************************************************)
MaxBatchRows == 5

\* The inner loop over j has ended: ncores tasks were appended, or
\* ij >= df.npartitions broke out of it.
BatchBuilt(ts, i, nc, nparts) == Len(ts) = nc \/ i + Len(ts) >= nparts

\* d.compute(*coreTasks) returns after the first finished task (a variant).
ComputeReturnedEarly(ts, rs) == DOMAIN rs # {}
\* d.compute(*coreTasks) returns when every task has finished.
ComputeReturned(ts, rs) == \A k \in 1..Len(ts) : k \in DOMAIN rs

\* The outer loop advances by one partition (a variant).
NextBatchStartByOne(i, nc) == i + 1
\* range(0, df.npartitions, ncores): the next value of i
NextBatchStart(i, nc) == i + nc

\* The results d.compute hands back, in task order.
FinishedResults(ts, rs) ==
    LET ks == SelectSeq([ k \in 1..Len(ts) |-> k ], LAMBDA k : k \in DOMAIN rs)
    IN  [ j \in 1..Len(ks) |-> rs[ks[j]] ]

BatchCall(s) == [ op |-> "binDataframe", axes |-> s.axes, nbins |-> s.nbins, ranges |-> s.ranges ]

\* A dataframe of up to MaxBatchRows rows in partitions of ChunkSize rows, and
\* a worker count of at least one.
BatchRows ==
    SeqsUpTo({ [ s \in Streams |-> FromInt(IF s = "X" THEN 0 ELSE 3) ],
               [ s \in Streams |-> FromInt(1) ] }, MaxBatchRows)

\* binDataframe(df, ncores, axes, nbins, ranges) is entered; edf and ncores
\* hold its arguments df and ncores.
BinDataframeStart ==
    /\ phase = "ready"
    /\ call.op = "none"
    /\ \E s \in { BinSpec(<< "X" >>, ListBins(<< MaxBins >>), << << 0, 2 >> >>),
                  BinSpec(<< "Y", "X" >>, ListBins(<< 1, MaxBins >>), << << 0, 4 >>, << 0, 2 >> >>),
                  BinSpec(<< "X" >>, IntBins(MaxBins), << << 0, 2 >> >>),
                  BinSpec(<< "Z" >>, ListBins(<< 1 >>), << << 0, 2 >> >>) } :
         call' = BatchCall(s)
    /\ \E rows \in BatchRows, nc \in 1..NCpu :
         /\ edf' = rows
         /\ ncores' = nc
    /\ phase' = "loop"
    /\ batchStart' = 0
    /\ coreTasks' = << >>
    /\ coreResults' = NoAttrs
    /\ partitionResults' = << >>
    /\ loopSteps' = 0
    /\ UNCHANGED << readout, source, attrs, binners, hdfdict, histdict, calls, held, err, reads, tasks,
                    splitVars, parVars, fullResult, batches >>

\* One pass of the inner loop: the task of partition ij = i + j is appended.
CreateTask ==
    /\ phase = "loop"
    /\ batchStart < NPartitions(edf)
    /\ ~BatchBuilt(coreTasks, batchStart, ncores, NPartitions(edf))
    /\ coreTasks' = Append(coreTasks, batchStart + Len(coreTasks))
    /\ tasks' = tasks + 1
    /\ loopSteps' = loopSteps + 1
    /\ UNCHANGED << readout, procVars, call, err, phase, reads, splitVars, parVars, batchStart, coreResults,
                    partitionResults, fullResult, batches >>

\* d.compute(*coreTasks) runs one task of the batch; the tasks of a batch run
\* in any order. A task that raises ends the call.
RunTask ==
    /\ phase = "loop"
    /\ Len(coreTasks) > 0
    /\ BatchBuilt(coreTasks, batchStart, ncores, NPartitions(edf))
    /\ \E k \in (1..Len(coreTasks)) \ DOMAIN coreResults :
         LET perr == BinPartitionError(call.axes, call.nbins, call.ranges)
         IN  IF perr # "none"
             THEN /\ err' = perr
                  /\ phase' = "done"
                  /\ UNCHANGED coreResults
             ELSE /\ coreResults' = DictMerge(coreResults,
                        [ x \in { k } |-> BinPartition(GetPartition(edf, coreTasks[k]),
                                                       call.axes, call.nbins, call.ranges) ])
                  /\ UNCHANGED << err, phase >>
    /\ loopSteps' = loopSteps + 1
    /\ UNCHANGED << readout, procVars, call, reads, tasks, splitVars, parVars, batchStart, coreTasks,
                    partitionResults, fullResult, batches >>

\* d.compute has returned: the results of the batch are summed and appended
\* to partitionResults, and the outer loop goes to its next i.
SumBatch ==
    /\ phase = "loop"
    /\ Len(coreTasks) > 0
    /\ BatchBuilt(coreTasks, batchStart, ncores, NPartitions(edf))
    /\ ComputeReturned(coreTasks, coreResults)
    /\ LET rs == FinishedResults(coreTasks, coreResults)
       IN  partitionResults' = Append(partitionResults, AddAll(ZerosLike(rs[1]), rs, 1))
    /\ batches' = Append(batches, [ tasks |-> coreTasks, finished |-> Cardinality(DOMAIN coreResults) ])
    /\ coreTasks' = << >>
    /\ coreResults' = NoAttrs
    /\ batchStart' = NextBatchStart(batchStart, ncores)
    /\ loopSteps' = loopSteps + 1
    /\ UNCHANGED << readout, procVars, call, err, phase, reads, tasks, splitVars, parVars, fullResult >>

\* After the outer loop: partitionResults are summed into fullResult and the
\* dictionary with the coordinate arrays is returned (nbins[iax] of an integer
\* nbins raises TypeError).
ReduceBatches ==
    /\ phase = "loop"
    /\ batchStart >= NPartitions(edf)
    /\ coreTasks = << >>
    /\ fullResult' = AddAll(ZerosLike(partitionResults[1]), partitionResults, 1)
    /\ IF call.nbins.kind = "int"
       THEN /\ err' = "TypeError"
            /\ UNCHANGED histdict
       ELSE /\ histdict' = DictMerge([ binned |-> fullResult' ],
                                     DataframeCoords(call.axes, call.nbins, call.ranges))
            /\ UNCHANGED err
    /\ phase' = "done"
    /\ loopSteps' = loopSteps + 1
    /\ UNCHANGED << readout, source, attrs, ncores, binners, hdfdict, edf, calls, held, call, reads, tasks,
                    splitVars, parVars, batchStart, coreTasks, coreResults, partitionResults, batches >>

InitBatch == InitProcessor(<< >>, None)

NextBatch ==
    \/ BinDataframeStart
    \/ CreateTask
    \/ RunTask
    \/ SumBatch
    \/ ReduceBatches

SpecBatch == InitBatch /\ [][NextBatch]_vars

(***************************************************************************)
(* localBinning with jitter on chosen axes (the jitter_axes keyword).      *)
(***************************************************************************)
\* The choices of jitter_axes for a call on the axes X and Y: all axes, a
\* reordering, a proper subset.
JitterAxesPool == { << "X", "Y" >>, << "Y", "X" >>, << "X" >>, << "Y" >> }

\* processor.localBinning(axes, nbins, ranges, jittered=True, jitter_axes=jaxes):
\* jitter_amplitude is left at its default 0.5 * np.ones(self.nbinaxes).
LocalBinningJitterAxes ==
    /\ phase = "ready"
    /\ \E s \in ValidSpecsOn(<< "X", "Y" >>), jaxes \in JitterAxesPool :
       \E noise \in [1..Len(jaxes) -> [1..Len(source) -> NoisePool]] :
         LET c == DictMerge(LocalCall(s, TRUE, [ i \in 1..Len(s.axes) |-> Rat(1, 2) ], "midpoint"),
                            [ jitter_axes |-> jaxes, noise |-> noise ])
             out == LocalBinningOutcome(source, histdict, c, noise)
         IN  /\ call' = c
             /\ err' = out.err
             /\ binners' = out.binners
             /\ hdfdict' = out.hdfdict
             /\ histdict' = out.histdict
             /\ held' = ReturnedObject(out.err, s.axes, held)
    /\ calls' = calls + 1
    /\ reads' = reads + Cardinality(Streams)
    /\ phase' = "done"
    /\ UNCHANGED << batchVars, readout, source, attrs, ncores, edf, tasks, splitVars, parVars >>

InitJitAxes == \E src \in SeqsUpTo(EventPool, MaxJitEvents) : InitProcessor(src, None)

NextJitAxes == LocalBinningJitterAxes

SpecJitAxes == InitJitAxes /\ [][NextJitAxes]_vars

(***************************************************************************)
(* readBinnedhdf5 of a file written by saveDict.                           *)
(***************************************************************************)
\* np.asarray(a, dtype='float32') of an array of counts
AsFloat32(a) == [ shape |-> a.shape, data |-> [ ix \in DOMAIN a.data |-> Float32(a.data[ix]) ] ]

\* np.asarray(val): the arrays of val stacked along a new first axis
StackFirst(val) ==
    LET shape2 == << Len(val) >> \o val[1].shape
    IN  [ shape |-> shape2,
          data |-> [ ix \in IndexSet(shape2) |-> val[ix[1] + 1].data[SubSeq(ix, 2, Len(ix))] ] ]

\* nts.natsorted(itemkeys) of the keys <sln><i>: in the order of the numbers i
NatsortedKeys(keys) ==
    [ j \in 1..Cardinality(keys) |->
        CHOOSE nm \in keys : Cardinality({ other \in keys : other.index.val < nm.index.val }) = j - 1 ]

\* readBinnedhdf5(fpath, combined, typ='float32'): the coordinate arrays by
\* axis name and the arrays read from 'binned' by key (the key of the stacked
\* slices is 'V').  The two parts are one dictionary in the code.
ReadBinnedhdf5(file, combined) ==
    LET axnames == { nm \in DOMAIN file : nm.group = "axes" }
        itemkeys == { nm \in DOMAIN file : nm.group = "binned" }
    IN  [ axes |-> [ k \in { nm.base : nm \in axnames } |-> file[AxisDatasetName(k)] ],
          binned |->
            IF Cardinality(itemkeys) = 1 \/ ~combined
            THEN [ ik \in { [ base |-> nm.base, index |-> nm.index ] : nm \in itemkeys } |->
                     AsFloat32(file[DatasetName(ik.base, ik.index)]) ]
            ELSE LET sorted == NatsortedKeys(itemkeys)
                 IN  [ ik \in { [ base |-> "V", index |-> None ] } |->
                         AsFloat32(StackFirst([ j \in 1..Len(sorted) |-> file[sorted[j]] ])) ] ]

\* readBinnedhdf5(save_addr, combined) on the file saveHistogram has written
ReadBinned ==
    /\ phase = "saved"
    /\ err = "none"
    /\ \E combined \in BOOLEAN :
         /\ readout' = ReadBinnedhdf5(saved.val, combined)
         /\ call' = DictMerge(call, [ combined |-> combined ])
    /\ phase' = "read"
    /\ UNCHANGED << batchVars, procVars, err, reads, tasks, splitVars, parVars >>

\* One binning call over one to four streams, saveHistogram, readBinnedhdf5.
ReadSpecs == UNION { SaveSpecsOn(D) : D \in 1..4 }
ReadLocalBinning == LocalBinningWith(ReadSpecs, { "midpoint" })

InitRead == \E src \in SaveSources : InitProcessor(src, None)

NextRead ==
    \/ ReadLocalBinning
    \/ SaveHistogram
    \/ ReadBinned

SpecRead == InitRead /\ [][NextRead]_vars

(***************************************************************************)
(* Properties.                                                             *)
(***************************************************************************)
Returned == phase = "done" /\ err = "none"
CallSpec == BinSpec(call.axes, call.nbins, call.ranges)
HasBinned == "binned" \in DOMAIN histdict

\* What localBinning without jitter leaves in a new processor for a specification.
LocalOf(src, s) ==
    LocalBinningOutcome(src, NoAttrs, LocalCall(s, FALSE, << >>, "midpoint"), NoNoise)

\* v lies in the closed range [min, max]
InRange(v, r) == r[1] <= v /\ v <= r[2]
AllInRange(src, s) ==
    \A e \in 1..Len(src) : \A i \in 1..Len(s.axes) : InRange(src[e][s.axes[i]], s.ranges[i])

\* C1: after distributedBinning on a source of N >= 1 events with ncores >= 1
\* and a valid specification given as lists, the call has returned and
\* histdict['binned'] equals the histogram of localBinning without jitter.
C1_ChunkedEqualsLocal ==
    ( /\ phase = "done"
      /\ call.op = "distributedBinning"
      /\ Len(source) >= 1
      /\ ncores >= 1
      /\ IsValidSpec(CallSpec)
      /\ call.nbins.kind = "list" )
    => /\ err = "none"
       /\ HasBinned
       /\ histdict["binned"] = LocalOf(source, CallSpec).histdict["binned"]

\* C2: when localBinning (no jitter) returns for a valid specification, the
\* counts of 'binned' sum to at most N, and to exactly N if and only if every
\* event lies within [min, max] on every binned axis; the call raised nothing
\* although events may lie outside.
C2_SumAtMostN ==
    ( /\ Returned
      /\ call.op = "localBinning"
      /\ ~call.jittered
      /\ IsValidSpec(CallSpec) )
    => /\ HasBinned
       /\ ArraySum(histdict["binned"]) <= Len(source)
       /\ (ArraySum(histdict["binned"]) = Len(source)) <=> AllInRange(source, CallSpec)

\* C2 witness: a returned call that counted some events and dropped others.
C2_Witness ==
    /\ Returned
    /\ call.op = "localBinning"
    /\ IsValidSpec(CallSpec)
    /\ HasBinned
    /\ ArraySum(histdict["binned"]) > 0
    /\ ArraySum(histdict["binned"]) < Len(source)
    /\ ~AllInRange(source, CallSpec)

\* C5: a call whose specification is invalid (lengths disagree, a range with
\* min >= max, a bin count <= 0) ends in an error and stores no histogram.
C5_InvalidSpecRejected ==
    (phase = "done" /\ ~IsValidSpec(CallSpec)) => (err # "none" /\ ~HasBinned)

\* C6: when a call with an invalid specification is reported to the caller, no
\* stream has been read and no binning task has been started.
C6_RejectedBeforeRead ==
    (phase = "done" /\ ~IsValidSpec(CallSpec) /\ err # "none") => (reads = 0 /\ tasks = 0)

\* nbins as the list [n, ..., n] with one entry per axis
Broadcast(s) ==
    IF s.nbins.kind = "int"
    THEN [ s EXCEPT !.nbins = ListBins([ i \in 1..Len(s.axes) |-> s.nbins.val ]) ]
    ELSE s

\* C7: distributedBinning with a single integer nbins >= 1 (valid ranges,
\* N >= 1, ncores >= 1) returns, and histdict is the one binDataframe gives for
\* the list [nbins, ..., nbins].
C7_ScalarBinsAccepted ==
    ( /\ phase = "done"
      /\ call.op = "distributedBinning"
      /\ call.nbins.kind = "int"
      /\ IsValidSpec(CallSpec)
      /\ Len(source) >= 1
      /\ ncores >= 1 )
    => /\ err = "none"
       /\ histdict = BinDataframe(edf, ncores, call.axes, Broadcast(CallSpec).nbins, call.ranges).histdict

\* The nbins + 1 evenly spaced edges from min to max, and the nbins midpoints.
EdgeCoords(r, nb) == Linspace(FromInt(r[1]), FromInt(r[2]), nb + 1)
MidpointCoords(r, nb) ==
    [ j \in 1..nb |-> RatAdd(FromInt(r[1]), Rat((2 * (j - 1) + 1) * (r[2] - r[1]), 2 * nb)) ]

\* C8: after a binning call that returned for a valid specification, the
\* coordinate array of every axis is the array of edges or the array of
\* midpoints of that axis.
C8_CoordsAreEdgesOrMidpoints ==
    (Returned /\ IsValidSpec(CallSpec))
    => \A i \in 1..Len(call.axes) :
          /\ call.axes[i] \in DOMAIN histdict
          /\ \/ histdict[call.axes[i]] = EdgeCoords(call.ranges[i], BinsAt(call.nbins, i))
             \/ histdict[call.axes[i]] = MidpointCoords(call.ranges[i], BinsAt(call.nbins, i))

AllAmpsZero == \A i \in 1..Len(call.jitter_amplitude) : call.jitter_amplitude[i] = FromInt(0)

\* What the same call without jitter leaves in a new processor.
Unjittered == LocalBinningOutcome(source, NoAttrs, [ call EXCEPT !.jittered = FALSE ], NoNoise)

\* C9: localBinning with jittered=True and amplitude 0 on every axis, for a
\* valid specification, ends as the call with jittered=False does and leaves
\* the same histogram.
C9_ZeroJitterIsNoJitter ==
    ( /\ phase = "done"
      /\ call.op = "localBinning"
      /\ call.jittered
      /\ AllAmpsZero
      /\ IsValidSpec(CallSpec) )
    => /\ err = Unjittered.err
       /\ histdict = Unjittered.histdict

\* The same for bin counts given as a list, one per axis (the form the jitter
\* loop can zip): with amplitude 0 the histogram is the one without jitter.
ZeroJitterOnLists ==
    ( /\ phase = "done"
      /\ call.op = "localBinning"
      /\ call.jittered
      /\ AllAmpsZero
      /\ IsValidSpec(CallSpec)
      /\ call.nbins.kind = "list" )
    => /\ err = "none"
       /\ histdict = Unjittered.histdict

RECURSIVE ConcatFrom(_, _, _)
\* the files at paths[k..] one after the other
ConcatFrom(fs, paths, k) ==
    IF k > Len(paths) THEN << >> ELSE fs[paths[k]] \o ConcatFrom(fs, paths, k + 1)

RECURSIVE LenSumFrom(_, _, _)
LenSumFrom(fs, paths, k) ==
    IF k > Len(paths) THEN 0 ELSE Len(fs[paths[k]]) + LenSumFrom(fs, paths, k + 1)

SplitReturned == call.op # "none" /\ Len(eventList) > 0 /\ phase \notin { "ready", "splitting" }

\* C3: once split(n) has returned on a source of L events, eventList holds
\* n + 1 non-decreasing integers from 0 to L, file i holds exactly the events
\* eventList[i] .. eventList[i+1] - 1 of the source in their order, the files
\* one after the other are the source, and their lengths add up to L.
C3_SplitPartitions ==
    SplitReturned =>
        LET n == Len(splitFilepaths)
            L == Len(source)
        IN  /\ n >= 1
            /\ Len(eventList) = n + 1
            /\ eventList[1] = 0
            /\ eventList[n + 1] = L
            /\ \A i \in 1..n : eventList[i] <= eventList[i + 1]
            /\ \A i \in 1..n :
                 /\ splitFilepaths[i] \in DOMAIN fsys
                 /\ fsys[splitFilepaths[i]] =
                        [ k \in 1..(eventList[i + 1] - eventList[i]) |-> source[eventList[i] + k] ]
            /\ ConcatFrom(fsys, splitFilepaths, 1) = source
            /\ LenSumFrom(fsys, splitFilepaths, 1) = L

\* A source of 3 events split in 2 files of different lengths.
C3_Witness ==
    /\ SplitReturned
    /\ Len(source) = 3
    /\ Len(splitFilepaths) = 2
    /\ Len(fsys[1]) = 1
    /\ Len(fsys[2]) = 2
    /\ fsys[1] # SubSeq(fsys[2], 1, 1)

ParallelEnded == phase = "done" /\ call.op = "parallelBinning"
ParSpec == BinSpec(call.axes, call.nbins, call.ranges)

\* C4: after split(n) and parallelBinning(combine=True) over the n files with a
\* specification that localBinning accepts on the source,
\* combinedresult['binned'] equals the histogram of localBinning without
\* jitter on the source, and the call has returned when nbins is a list.
C4_SplitParallelEqualsLocal ==
    ( /\ ParallelEnded
      /\ Len(eventList) > 0 )
    => \A local \in { LocalOf(source, ParSpec) } :
         local.err = "none"
         => /\ "binned" \in DOMAIN combinedresult
            /\ combinedresult["binned"] = local.histdict["binned"]
            /\ call.nbins.kind = "list" => err = "none"

\* Three events split in two files, both of which put events in the histogram.
C4_Witness ==
    /\ ParallelEnded
    /\ err = "none"
    /\ Len(source) = 3
    /\ Len(files) = 2
    /\ "binned" \in DOMAIN combinedresult
    /\ ArraySum(computed[1].value) > 0
    /\ ArraySum(computed[2].value) > 0
    /\ ArraySum(combinedresult["binned"]) = 3

\* What localBinning leaves on each file of the parallel processor.
FileOutcomes == [ i \in 1..Len(files) |-> LocalOf(fsys[files[i]], ParSpec) ]

\* C10: when parallelBinning(combine=True) over one file or more ends, with
\* any scheduler and the tasks completed in any order: if localBinning accepts
\* the specification on every file, combinedresult['binned'] is, element by
\* element, the sum of the histograms of localBinning on the files.
C10_CombinedIsSum ==
    ( /\ ParallelEnded
      /\ Len(files) >= 1 )
    => \A outs \in { FileOutcomes } :
         (\A i \in 1..Len(files) : outs[i].err = "none")
         => /\ "binned" \in DOMAIN combinedresult
            /\ combinedresult["binned"].shape = outs[1].histdict["binned"].shape
            /\ \A ix \in DOMAIN outs[1].histdict["binned"].data :
                 combinedresult["binned"].data[ix] =
                     SumOver(1..Len(files),
                             [ i \in 1..Len(files) |-> outs[i].histdict["binned"].data[ix] ])

\* Two files that both put events in the histogram, whose tasks completed in
\* the reverse order under a scheduler other than the default.
C10_Witness ==
    /\ ParallelEnded
    /\ err = "none"
    /\ Len(files) = 2
    /\ order = << 2, 1 >>
    /\ call.scheduler = "processes"
    /\ ArraySum(computed[1].value) > 0
    /\ ArraySum(computed[2].value) > 0
    /\ computed[1].value # computed[2].value


\* C11: after parallelBinning(combine=False) over one file or more and then
\* combineResults, combinedresult['binned'] is the histogram that
\* parallelBinning(combine=True) stores for the same files and specification
\* (the reduction by _arraysum of the per-file histograms); when the
\* specification is refused on a file, neither leaves a 'binned' entry.
C11_SeparateThenCombineEqualsCombined ==
    ( /\ phase = "combined"
      /\ call.op = "parallelBinning"
      /\ ~call.combine
      /\ Len(files) >= 1 )
    => \A outs \in { FileOutcomes } :
         IF \A i \in 1..Len(files) : outs[i].err = "none"
         THEN /\ "binned" \in DOMAIN combinedresult
              /\ combinedresult["binned"] =
                     Reduce([ i \in 1..Len(files) |-> outs[i].histdict["binned"] ])
         ELSE "binned" \notin DOMAIN combinedresult

\* Two files binned separately in the reverse order, both of which put events
\* in the combined histogram.
C11_Witness ==
    /\ phase = "combined"
    /\ call.op = "parallelBinning"
    /\ ~call.combine
    /\ Len(files) = 2
    /\ order = << 2, 1 >>
    /\ "binned" \in DOMAIN combinedresult
    /\ ArraySum(results[1]["binned"]) > 0
    /\ ArraySum(results[2]["binned"]) > 0
    /\ ArraySum(combinedresult["binned"]) = ArraySum(results[1]["binned"]) + ArraySum(results[2]["binned"])


\* C12: combineResults on results whose 'binned' arrays do not all have the
\* same shape ends in an error.
C12_MismatchedShapesRejected ==
    ( /\ phase = "combined"
      /\ call.op = "assignResults"
      /\ \E i, j \in DOMAIN results : results[i]["binned"].shape # results[j]["binned"].shape )
    => err # "none"


FailedTasks == { i \in DOMAIN computed : computed[i].err # "none" }

\* What C13 says of every state: after a wave with a task that raised, the
\* call has raised that task's exception and neither combinedresult['binned']
\* nor results is set; no task has run twice; and a combined histogram is
\* stored only when every task has returned.
C13_State ==
    /\ (ParallelEnded /\ FailedTasks # {})
         => /\ err \in { computed[i].err : i \in FailedTasks }
            /\ "binned" \notin DOMAIN combinedresult
            /\ results = NoAttrs
    /\ (call.op = "parallelBinning" /\ phase \in { "binning", "done" })
         => /\ \A j, k \in 1..Len(order) : order[j] = order[k] => j = k
            /\ DOMAIN computed = { order[j] : j \in 1..Len(order) }
    /\ (ParallelEnded /\ "binned" \in DOMAIN combinedresult)
         => /\ DOMAIN computed = 1..Len(files)
            /\ FailedTasks = {}

\* What C13 says of every step: a distributedBinning call that raises leaves
\* histdict as it was before the call.
C13_Step ==
    (phase = "ready" /\ phase' = "done" /\ call'.op = "distributedBinning" /\ err' # "none")
        => histdict' = histdict

\* C13: when a binning task of parallelBinning or binDataframe raises, the
\* call raises that exception, no task is skipped or run again, parallelBinning
\* leaves combinedresult without 'binned', and distributedBinning leaves
\* histdict as it was before the call.
C13_TaskFailurePropagates == [](C13_State) /\ [][C13_Step]_vars

\* A wave in which one task returned a histogram with events and another
\* raised KeyError.
C13_Witness ==
    /\ ParallelEnded
    /\ err = "KeyError"
    /\ FailedTasks # {}
    /\ \E i \in DOMAIN computed : computed[i].err = "none" /\ call.combine /\ ArraySum(computed[i].value) > 0

\* Whether ax is among the axes listed to updateHistogram, and the range given for it.
IsListed(axes, ax) == \E k \in 1..Len(axes) : axes[k] = ax
RangeOf(axes, sliceranges, ax) == sliceranges[CHOOSE k \in 1..Len(axes) : axes[k] = ax]
SliceStart(n, rg) == IF rg[1] > n THEN n ELSE rg[1]
SliceStop(n, rg) == IF rg[2] > n THEN n ELSE rg[2]
SliceLen(n, rg) == IF SliceStart(n, rg) >= SliceStop(n, rg) THEN 0 ELSE SliceStop(n, rg) - SliceStart(n, rg)

\* h1 is h0 narrowed: haxes are the axes of h0['binned'] in order; along every
\* listed axis the extent and the coordinate array of h1 are the slice [a, b)
\* of those of h0, the counts keep their positions relative to the slice, and
\* the axes not listed keep extent, counts and coordinate array.
SlicedAlong(h0, h1, haxes, axes, sliceranges) ==
    /\ DOMAIN h1 = DOMAIN h0
    /\ \A ax \in DOMAIN h0 \ { "binned" } :
         h1[ax] = IF IsListed(axes, ax)
                  THEN LET rg == RangeOf(axes, sliceranges, ax)
                       IN  [ j \in 1..SliceLen(Len(h0[ax]), rg) |-> h0[ax][j + SliceStart(Len(h0[ax]), rg)] ]
                  ELSE h0[ax]
    /\ LET b0 == h0["binned"]
           b1 == h1["binned"]
           start(i) == IF IsListed(axes, haxes[i])
                       THEN SliceStart(b0.shape[i], RangeOf(axes, sliceranges, haxes[i])) ELSE 0
       IN  /\ Len(b1.shape) = Len(b0.shape)
           /\ \A i \in 1..Len(b0.shape) :
                b1.shape[i] = IF IsListed(axes, haxes[i])
                              THEN SliceLen(b0.shape[i], RangeOf(axes, sliceranges, haxes[i]))
                              ELSE b0.shape[i]
           /\ DOMAIN b1.data = IndexSet(b1.shape)
           /\ \A ix \in DOMAIN b1.data :
                b1.data[ix] = b0.data[[ i \in 1..Len(ix) |-> ix[i] + start(i) ]]

ListedAmong(axes, haxes) == \A k \in 1..Len(axes) : IsListed(haxes, axes[k])

\* The script holds a histogram of the hdf5Processor and calls updateHistogram
\* on axes of that histogram.
C14_ProcessorStep ==
    ( /\ phase = "done"
      /\ call.op \in { "localBinning", "distributedBinning", "distributedProcessBinning" }
      /\ held.obj = "histdict"
      /\ call'.op = "updateHistogram"
      /\ ListedAmong(call'.axes, held.axes) )
    => /\ err' = "none"
       /\ SlicedAlong(histdict, histdict', held.axes, call'.axes, call'.sliceranges)

\* parallelBinning returned and updateHistogram is called on axes of its histogram.
C14_ParallelStep ==
    ( /\ phase = "done"
      /\ call.op = "parallelBinning"
      /\ err = "none"
      /\ call'.op = "updateHistogram"
      /\ ListedAmong(call'.axes, call.axes) )
    => /\ err' = "none"
       /\ SlicedAlong(combinedresult, combinedresult', call.axes, call'.axes, call'.sliceranges)

\* C14: updateHistogram(axes, sliceranges) with a bin-index range [a, b) for
\* each listed axis, on hdf5Processor and on parallelHDF5Processor, leaves a
\* histogram whose extent and coordinate array along each listed axis are the
\* slice [a, b) of the previous ones, the axes not listed being unchanged.
C14_UpdateSlicesListedAxes == [][C14_ProcessorStep /\ C14_ParallelStep]_vars

\* The same on the parallel processor alone.
C14_ParallelOnly == [][C14_ParallelStep]_vars

\* The same on an hdf5Processor whose last binning call returned.
C14_AfterReturn == [][(err = "none") => C14_ProcessorStep]_vars

\* The result the script holds: the dictionary object a binning call returned
\* is self.histdict itself, so its content is whatever self.histdict holds now.
HeldResult == IF held.obj = "histdict" THEN histdict ELSE NoAttrs

\* C15: a result returned to the caller by a binning call has the same
\* histogram and coordinate arrays after a later updateHistogram call as
\* before it.
C15_UpdateKeepsReturnedResult ==
    [][ (held.obj = "histdict" /\ call'.op = "updateHistogram") => HeldResult' = HeldResult ]_vars

\* A binning call of the hdf5Processor returned.
BinningOps == { "localBinning", "distributedBinning", "distributedProcessBinning" }
BinningReturned == phase = "done" /\ err = "none" /\ call.op \in BinningOps

\* The result the call made last gives on a new processor on the same file.
FreshResult ==
    IF call.op = "localBinning"
    THEN LocalBinningOutcome(source, NoAttrs, call, NoNoise).histdict
    ELSE IF call.op = "distributedBinning"
    THEN BinDataframe(SummarizeDataframe(source, ncores).rows, ncores,
                      call.axes, call.nbins, call.ranges).histdict
    ELSE DistributedProcessOutcome(source, NoAttrs, CallSpec).histdict

\* C16: after any sequence of binning calls on one processor, the result of
\* the last call holds exactly 'binned' and one coordinate entry per axis of
\* that call, and equals the result of the same call on a new processor.
C16_ResultIsFresh ==
    BinningReturned =>
        /\ DOMAIN histdict = { "binned" } \cup { call.axes[i] : i \in 1..Len(call.axes) }
        /\ histdict = FreshResult

\* The specification s with the range of every listed axis restricted to the
\* bins [a, b) of that axis: (min + a*w, min + b*w) with b - a bins, where
\* w = (max - min) / nbins is taken to be an integer.
BinWidth(s, i) == (s.ranges[i][2] - s.ranges[i][1]) \div s.nbins.val[i]
RestrictedSpec(s, axes, sliceranges) ==
    BinSpec(s.axes,
            ListBins([ i \in 1..Len(s.axes) |->
                        IF IsListed(axes, s.axes[i])
                        THEN LET rg == RangeOf(axes, sliceranges, s.axes[i]) IN rg[2] - rg[1]
                        ELSE s.nbins.val[i] ]),
            [ i \in 1..Len(s.axes) |->
                IF IsListed(axes, s.axes[i])
                THEN LET rg == RangeOf(axes, sliceranges, s.axes[i])
                     IN  << s.ranges[i][1] + rg[1] * BinWidth(s, i),
                            s.ranges[i][1] + rg[2] * BinWidth(s, i) >>
                ELSE s.ranges[i] ])

\* updateHistogram is called on axes of the midpoint-coordinate result that
\* localBinning just returned, with ranges 0 <= a < b <= nbins, and returns.
C17_Narrowed ==
    /\ phase = "done"
    /\ call.op = "localBinning"
    /\ err = "none"
    /\ call.histcoord = "midpoint"
    /\ call'.op = "updateHistogram"
    /\ err' = "none"
    /\ ListedAmong(call'.axes, call.axes)
    /\ \A i \in 1..Len(call.axes) :
         /\ (call.ranges[i][2] - call.ranges[i][1]) % call.nbins.val[i] = 0
         /\ IsListed(call'.axes, call.axes[i]) =>
              LET rg == RangeOf(call'.axes, call'.sliceranges, call.axes[i])
              IN  0 <= rg[1] /\ rg[1] < rg[2] /\ rg[2] <= call.nbins.val[i]

C17_SameAsRestricted ==
    histdict'["binned"] =
        LocalOf(source, RestrictedSpec(CallSpec, call'.axes, call'.sliceranges)).histdict["binned"]

\* An event whose value on a listed axis is the new upper bound min + b*w of
\* that axis, below the old upper bound (b < nbins).
C17_OnNewUpperBound ==
    \E e \in 1..Len(source), i \in 1..Len(call.axes) :
        /\ IsListed(call'.axes, call.axes[i])
        /\ LET rg == RangeOf(call'.axes, call'.sliceranges, call.axes[i])
           IN  /\ rg[2] < call.nbins.val[i]
               /\ source[e][call.axes[i]] = call.ranges[i][1] + rg[2] * BinWidth(CallSpec, i)

\* C17: for a midpoint-coordinate result of localBinning, updateHistogram of
\* an axis to the bins [a, b) gives the same histogram as binning the same data
\* with that axis's range restricted to (min + a*w, min + b*w) and b - a bins.
C17_NarrowEqualsRestrictedBinning == [][ C17_Narrowed => C17_SameAsRestricted ]_vars

\* C17 amended: the same, when no event lies exactly on a new upper bound
\* (such an event is outside the slice, and inside the closed last bin of the
\* restricted binning).
C17_NarrowEqualsRestrictedOffBoundary ==
    [][ (C17_Narrowed /\ ~C17_OnNewUpperBound) => C17_SameAsRestricted ]_vars

\* A one-bin slice of X that holds the only event, after localBinning over Y and X.
C17_Witness ==
    /\ phase = "updated"
    /\ err = "none"
    /\ call.axes = << "X" >>
    /\ call.sliceranges = << << 0, 1 >> >>
    /\ binners.binaxes = << "Y", "X" >>
    /\ source = << [X |-> 0, Y |-> 1] >>
    /\ histdict["binned"] = [ shape |-> << 1, 1 >>, data |-> [ ix \in { << 0, 0 >> } |-> 1 ] ]
    /\ histdict["Y"] = << Rat(1, 1) >>

\* The values of stream g in a sequence of events
StreamOf(src, g) == [ e \in 1..Len(src) |-> src[e][g] ]

\* The slice [lo, hi) (0-based) of a sequence of values
SliceOf(vals, lo, hi) == [ j \in 1..(Min2(hi, Len(vals)) - Min2(lo, Len(vals))) |-> vals[j + Min2(lo, Len(vals))] ]

\* C18: every file split has written carries the file-level attributes of the
\* original, the stream names of the original, and for every stream the slice
\* [boundary[i], boundary[i+1]) of the original values with the attributes of
\* that stream.
C18_SplitFilesCarryAttrsAndSlices ==
    \A k \in DOMAIN fsys :
        /\ k \in DOMAIN fattrs
        /\ fattrs[k].file = attrs.file
        /\ DOMAIN fattrs[k].groups = GroupsOf(source)
        /\ \A g \in GroupsOf(source) :
             /\ fattrs[k].groups[g] = GroupAttrs(attrs, g)
             /\ StreamOf(fsys[k], g) = SliceOf(StreamOf(source, g), eventList[k], eventList[k + 1])

\* Two files written from a file with attributes of its own and of its groups.
C18_Witness ==
    /\ phase = "split"
    /\ Len(splitFilepaths) = 2
    /\ Len(fsys[1]) >= 1
    /\ Len(fsys[2]) >= 1
    /\ attrs.file # NoAttrs
    /\ DOMAIN attrs.groups = { "X", "Y" }
    /\ fattrs[2].groups["Y"] = [ Name |-> "Y", Unit |-> "ns" ]

\* The datasets of the saved file under 'binned/'
BinnedDatasets == { nm \in DOMAIN saved.val : nm.group = "binned" }

\* The index tuple ix with the index i put in at position pos
InsertAt(ix, pos, i) ==
    [ k \in 1..(Len(ix) + 1) |-> IF k < pos THEN ix[k] ELSE IF k = pos THEN i ELSE ix[k - 1] ]

\* saveHistogram(form='h5') was called on the histogram a binning call returned.
HistogramSaved == phase = "saved" /\ call.op = "saveHistogram" /\ HasBinned

\* C19: saving a histogram in the 'h5' layout fails with an error to the
\* caller and writes no 'binned' dataset when it has more than 4 axes; with
\* exactly 4 axes it writes one 3-D dataset per index along the cut axis, named
\* <sliceName><index>; with at most 3 axes a single dataset named <sliceName>.
C19_SaveByDimension ==
    HistogramSaved =>
        LET binned == histdict["binned"]
            D == Len(binned.shape)
        IN  IF D > 4
            THEN err # "none" /\ BinnedDatasets = {}
            ELSE IF D = 4
            THEN /\ err = "none"
                 /\ BinnedDatasets =
                        { DatasetName(call.slicename, Some(i)) : i \in 0..(binned.shape[call.cutaxis + 1] - 1) }
                 /\ \A nm \in BinnedDatasets :
                      /\ Len(saved.val[nm].shape) = 3
                      /\ InsertAt(saved.val[nm].shape, call.cutaxis + 1, binned.shape[call.cutaxis + 1])
                            = binned.shape
                      /\ DOMAIN saved.val[nm].data = IndexSet(saved.val[nm].shape)
                      /\ \A ix \in DOMAIN saved.val[nm].data :
                           saved.val[nm].data[ix] = binned.data[InsertAt(ix, call.cutaxis + 1, nm.index.val)]
            ELSE /\ err = "none"
                 /\ BinnedDatasets = { DatasetName(call.slicename, None) }
                 /\ saved.val[DatasetName(call.slicename, None)] = binned

\* A histogram over five axes was handed to saveHistogram.
C19_Witness ==
    /\ HistogramSaved
    /\ Len(histdict["binned"].shape) = 5
    /\ err = "Exception"
    /\ saved = Some(NoAttrs)

\* The call just made names an axis that is not a group of the file.
NamesAbsentAxis(c, src) == \E i \in 1..Len(c.axes) : c.axes[i] \notin GroupsOf(src)

C20_Step ==
    (phase = "ready" /\ phase' = "done" /\ call'.op \in BinningOps /\ NamesAbsentAxis(call', source))
        => /\ err' # "none"
           /\ held' = held
           /\ histdict' = histdict

\* C20: a binning call of the hdf5Processor that names an axis absent from the
\* file's streams fails with an error, returns no histogram and leaves the
\* stored histogram as it was.
C20_AbsentAxisRejected == [][C20_Step]_vars

\* A second call named an absent axis and failed; the histogram of the first
\* call is still stored.
C20_Witness ==
    /\ phase = "done"
    /\ call.op \in BinningOps
    /\ NamesAbsentAxis(call, source)
    /\ err = "KeyError"
    /\ calls = 2
    /\ HasBinned
    /\ held.obj = "histdict"

\* The call whose arguments are the values of a complete binDict, made on a
\* freshly constructed processor.
DictCallGiven == phase = "done" /\ call.op \in DictOps /\ call.binDict.given
DictComplete == DictCallGiven /\ DOMAIN call.binDict.val = DictKeys
DictSpecOf(bd) == BinSpec(bd["axes"], bd["nbins"], bd["ranges"])
ExpectedOfDict(op, src, nc, s, histcoord) ==
    IF op = "localBinning"
    THEN LocalBinningDictOutcome(src, NoAttrs, NoAttrs, Some(s), None, histcoord)
    ELSE IF op = "distributedProcessBinning"
    THEN DistributedProcessDictOutcome(src, NoAttrs, NoAttrs, Some(s), None)
    ELSE DistributedDictOutcome(src, NoAttrs, NoAttrs, nc, Some(s), None)

\* C21: a binning call that is given a complete binDict computes what the
\* call with binDict's axes, bin counts and ranges would compute (same
\* outcome, same histogram and coordinate arrays), whatever is passed as
\* axes, nbins and ranges, None included.
C21_BinDictUsedThroughout ==
    DictComplete =>
        \A exp \in { ExpectedOfDict(call.op, source, ncores, DictSpecOf(call.binDict.val), call.histcoord) } :
            /\ err = exp.err
            /\ exp.err = "none" =>
                 \A k \in DOMAIN exp.histdict : k \in DOMAIN histdict /\ histdict[k] = exp.histdict[k]

\* C29: a call of _addBinners that returns leaves binaxes, nbinaxes, bincounts
\* and binranges taken together from one specification: either all four are
\* those of the complete specification passed to the call, or (when the call
\* changes nothing) all four are what they were; binaxes of this call is
\* never stored beside bincounts or binranges kept from an earlier call.
C29_Step ==
    (phase = "ready" /\ phase' = "done" /\ call'.op \in DictOps
        /\ (call'.binDict.given \/ call'.args.given)) =>
        \A supplied \in { IF call'.binDict.given THEN call'.binDict.val ELSE DictOf(call'.args.val) } :
            \/ binners' = binners
            \/ /\ DOMAIN supplied = DictKeys
               /\ binners' = AddBinners(supplied["axes"], supplied["nbins"], supplied["ranges"])
C29_BinnersFromOneSpecification == [][C29_Step]_vars

\* C22: the chunks [eventIDStart, eventIDEnd) that summarize(form='dataframe')
\* reads for N >= 1 events and ncores >= 1 workers are consecutive: the first
\* starts at 0, each starts where the previous one ended, the last ends at N.
SummarizeRan ==
    /\ phase = "done" /\ call.op = "distributedBinning"
    /\ Len(source) >= 1 /\ ncores >= 1
C22_ChunksPartitionIndexRange ==
    SummarizeRan =>
        \A cs \in { SummarizeChunkSize(Len(source), ncores) } :
            \A nparts \in { SummarizeNPartitions(Len(source), cs) } :
                /\ EventIDStart(0, cs) = 0
                /\ \A p \in 0..(nparts - 2) : EventIDEnd(p, cs, Len(source)) = EventIDStart(p + 1, cs)
                /\ EventIDEnd(nparts - 1, cs, Len(source)) = Len(source)

\* C23: binDataframe runs its batches one after another with a barrier
\* between them: while a task of a batch exists (created or finished), every
\* earlier batch has had all its tasks finished and its results summed into
\* partitionResults, and its partitions precede those of the current batch;
\* fullResult is computed only when no task is pending and the summed batches
\* hold every partition up to the last.
InBinDataframe == call.op = "binDataframe"
BatchesSummed ==
    /\ Len(partitionResults) = Len(batches)
    /\ \A b \in 1..Len(batches) : batches[b].finished = Len(batches[b].tasks)
C23_BatchBarrier ==
    InBinDataframe =>
        /\ (coreTasks # << >>) =>
              /\ BatchesSummed
              /\ \A b \in 1..Len(batches) : \A j \in 1..Len(batches[b].tasks), k \in 1..Len(coreTasks) :
                    batches[b].tasks[j] < coreTasks[k]
        /\ (DOMAIN coreResults # {}) => BatchBuilt(coreTasks, batchStart, ncores, NPartitions(edf))
        /\ ("data" \in DOMAIN fullResult) =>
              /\ coreTasks = << >>
              /\ BatchesSummed
              /\ \E b \in 1..Len(batches) : \E j \in 1..Len(batches[b].tasks) :
                    batches[b].tasks[j] = NPartitions(edf) - 1
\* A task of the second batch exists after the first batch of two tasks was summed.
C23_Witness ==
    /\ InBinDataframe
    /\ Len(batches) = 1 /\ Len(batches[1].tasks) = 2
    /\ coreTasks # << >>

\* C25: for P >= 1 partitions and c >= 1 workers binDataframe submits every
\* partition index in [0, P) exactly once, every batch holds between 1 and c
\* tasks, there are ceil(P/c) batches, the returned histogram is the sum of
\* the histograms of all P partitions, and the loops end: the steps taken
\* plus a rank of what is left, never negative, stay within 3 P + 1.
SubmittedTimes(p) ==
    Cardinality({ << b, j >> \in (1..Len(batches)) \X (1..NCpu) :
                    j <= Len(batches[b].tasks) /\ batches[b].tasks[j] = p })
      + Cardinality({ k \in 1..Len(coreTasks) : coreTasks[k] = p })
AllPartitionsSum ==
    LET each == [ p \in 1..NPartitions(edf) |->
                    BinPartition(GetPartition(edf, p - 1), call.axes, call.nbins, call.ranges) ]
    IN  AddAll(ZerosLike(each[1]), each, 1)
C25_State ==
    InBinDataframe =>
        /\ \A p \in 0..(NPartitions(edf) - 1) : SubmittedTimes(p) <= 1
        /\ \A b \in 1..Len(batches) : Len(batches[b].tasks) \in 1..ncores
        /\ (phase = "done" /\ err = "none") =>
              /\ \A p \in 0..(NPartitions(edf) - 1) : SubmittedTimes(p) = 1
              /\ Len(batches) = (NPartitions(edf) + ncores - 1) \div ncores
              /\ histdict["binned"] = AllPartitionsSum
\* What is left to do in binDataframe: partitions without a task, tasks not
\* finished, a batch not summed, the reduction.
LoopRank ==
    LET made == Min2(batchStart + Len(coreTasks), NPartitions(edf))
    IN  3 * (NPartitions(edf) - made)
          + (Len(coreTasks) - Cardinality(DOMAIN coreResults))
          + (IF coreTasks # << >> THEN 1 ELSE 0)
          + (IF phase # "done" THEN 1 ELSE 0)
C25_EveryPartitionOnce ==
    InBinDataframe =>
        /\ C25_State
        /\ LoopRank >= 0
        /\ loopSteps + LoopRank <= 3 * NPartitions(edf) + 1
\* Three partitions and two workers: a full batch and a batch of one task.
C25_Witness ==
    /\ InBinDataframe /\ phase = "done" /\ err = "none"
    /\ NPartitions(edf) = 3 /\ ncores = 2
    /\ Len(batches) = 2 /\ Len(batches[2].tasks) = 1
    /\ \E ix \in DOMAIN histdict["binned"].data : histdict["binned"].data[ix] > 1

\* floor((v - min) / binWidth) for v >= min, binWidth = (max - min) / nb
FloorBin(v, r, nb) == ((v - r[1]) * nb) \div (r[2] - r[1])
LocalReturnedValid ==
    /\ Returned
    /\ call.op = "localBinning"
    /\ ~call.jittered
    /\ IsValidSpec(CallSpec)
    /\ HasBinned
\* The events counted at index ix when the range of every axis is [min, max).
CountedHalfOpen(src, s, ix) ==
    { e \in 1..Len(src) : \A i \in 1..Len(s.axes) :
        LET v == src[e][s.axes[i]]
        IN  /\ s.ranges[i][1] <= v /\ v < s.ranges[i][2]
            /\ FloorBin(v, s.ranges[i], BinsAt(s.nbins, i)) = ix[i] }
\* The events counted at index ix when the range is [min, max] and v == max
\* goes to the last bin.
CountedClosed(src, s, ix) ==
    { e \in 1..Len(src) : \A i \in 1..Len(s.axes) :
        LET v == src[e][s.axes[i]]
            nb == BinsAt(s.nbins, i)
        IN  /\ InRange(v, s.ranges[i])
            /\ ix[i] = IF v = s.ranges[i][2] THEN nb - 1 ELSE FloorBin(v, s.ranges[i], nb) }

\* C24 as stated: an event is counted exactly when min <= v < max on every
\* binned axis, once, at index floor((v - min)/binWidth) per axis; an event
\* with v == max on some axis is counted nowhere.
C24_HalfOpenRange ==
    LocalReturnedValid =>
        \A ix \in DOMAIN histdict["binned"].data :
            histdict["binned"].data[ix] = Cardinality(CountedHalfOpen(source, CallSpec, ix))

\* C24 amended: an event is counted exactly when min <= v <= max on every
\* binned axis, once, at index floor((v - min)/binWidth) per axis, a value
\* equal to max being counted in the last bin; v < min or v > max on some axis
\* is counted nowhere.
C24_ClosedRange ==
    LocalReturnedValid =>
        \A ix \in DOMAIN histdict["binned"].data :
            histdict["binned"].data[ix] = Cardinality(CountedClosed(source, CallSpec, ix))
\* A returned call with an event on the upper bound of an axis, an event below
\* a lower bound and an event strictly inside.
C24_Witness ==
    /\ LocalReturnedValid
    /\ \E e \in 1..Len(source) : \E i \in 1..Len(call.axes) : source[e][call.axes[i]] = call.ranges[i][2]
    /\ \E e \in 1..Len(source) : \E i \in 1..Len(call.axes) : source[e][call.axes[i]] < call.ranges[i][1]
    /\ \E ix \in DOMAIN histdict["binned"].data : ix[1] = 0 /\ histdict["binned"].data[ix] > 0
    /\ ArraySum(histdict["binned"]) = Len(source) - 1

\* C26: after the construction of the processor with any ncores argument the
\* worker count kept is an integer with 1 <= ncores <= N_CPU, and the chunk
\* arithmetic of the chunked path never divides by zero.
C26_NcoresInRange ==
    /\ ncores \in 1..NCpu
    /\ (call.op = "distributedBinning" /\ Len(source) >= 1) => err # "ZeroDivisionError"

\* C27: after localBinning with jittered=True and a choice of jitter_axes, no
\* value on a jittered axis a has moved by more than its amplitude times
\* (max_a - min_a) / nbins_a of axis a itself, the values of the other axes
\* have not moved, and every stream keeps its number of events.
AxisIndex(c, a) == CHOOSE i \in 1..Len(c.axes) : c.axes[i] = a
OwnJitterBound(c, a) ==
    LET i == AxisIndex(c, a)
    IN  RatScale(c.jitter_amplitude[i], c.ranges[i][2] - c.ranges[i][1], c.nbins.val[i])
C27_JitterWithinOwnBin ==
    (phase = "done" /\ call.op = "localBinning" /\ "jitter_axes" \in DOMAIN call /\ err = "none") =>
        \A orig \in { AssembleGroupsDict(source) } :
        \A moved \in { Jitter(orig, call, call.noise).hdf } :
            \A a \in DOMAIN orig :
                /\ Len(moved[a]) = Len(orig[a])
                /\ \A e \in 1..Len(orig[a]) :
                     IF \E z \in 1..Len(call.jitter_axes) : call.jitter_axes[z] = a
                     THEN RatLeq(RatAbs(RatSub(moved[a][e], orig[a][e])), OwnJitterBound(call, a))
                     ELSE moved[a][e] = orig[a][e]

\* C28: after a binning call of the hdf5Processor that returned, an
\* updateHistogram call that returns leaves, for every binned axis, a
\* coordinate array as long as the histogram's extent along that axis when the
\* coordinates are midpoints, and one longer when they are edges.
C28_Step ==
    ( /\ phase = "done" /\ err = "none"
      /\ call.op \in { "localBinning", "distributedProcessBinning" }
      /\ phase' = "updated" /\ err' = "none" ) =>
        \A i \in 1..Len(call.axes) :
            Len(histdict'[call.axes[i]])
                = histdict'["binned"].shape[i] + (IF call.histcoord = "edge" THEN 1 ELSE 0)
C28_CoordsMatchExtent == [][C28_Step]_vars

\* C30: after saveHistogram in the 'h5' layout of a histogram over 1 to 4
\* axes and readBinnedhdf5 of the file (slices combined, the default), every
\* coordinate array read back equals the one saved, and the dictionary read
\* holds under the slice name an array equal to the histogram saved: same
\* shape, same axis order, same values.
ReadBack == phase = "read" /\ call.op = "saveHistogram" /\ call.combined
C30_SaveReadRoundTrip ==
    ReadBack =>
        /\ \A i \in 1..Len(binners.binaxes) :
              /\ binners.binaxes[i] \in DOMAIN readout.axes
              /\ readout.axes[binners.binaxes[i]] = histdict[binners.binaxes[i]]
        /\ [ base |-> call.slicename, index |-> None ] \in DOMAIN readout.binned
        /\ readout.binned[[ base |-> call.slicename, index |-> None ]] = histdict["binned"]
=============================================================================
